---- MODULE Spec2Model ----
(***************************************************************************)
(* Verification model of parts of the Ren-C interpreter:                   *)
(*                                                                         *)
(*   - the host console loop of %host-main.c (main, Enable_Ctrl_C,         *)
(*     Disable_Ctrl_C, Run_Sandboxed_Code), specification HostSpec;        *)
(*   - series data expansion of %m-pools.c (Expand_Series), specification  *)
(*     ExpandSpec;                                                         *)
(*   - the memory pools and the life of series nodes of %m-pools.c         *)
(*     (Fill_Pool, Decay_Series, Manage_Series), specification PoolSpec;   *)
(*   - the data stack of %c-value.c (Expand_Data_Stack_May_Fail),          *)
(*     specification StackSpec;                                            *)
(*   - contexts of %t-object.c (Append_To_Context, Equal_Context),         *)
(*     specifications ContextSpec and EqualSpec;                           *)
(*   - typeset verbs of %t-typeset.c (REBTYPE(Typeset)), specification     *)
(*     TypesetSpec.                                                        *)
(***************************************************************************)
EXTENDS Integers, Sequences, FiniteSets, TLC

(***************************************************************************)
(* Bounds of the model.                                                    *)
(***************************************************************************)
MaxDriverCalls == 5   \* HOST-CONSOLE invocations explored per run
MaxExit == 2          \* exit codes 0..MaxExit
MaxTrace == 1         \* trace levels/depths 0..MaxTrace
MaxLen == 2           \* initial series lengths 0..MaxLen
MaxSlack == 2         \* initial unused tail units beyond the terminator
MaxBias == 2          \* initial head bias 0..MaxBias
MaxDelta == 2         \* expansion deltas 0..MaxDelta
MaxCalls == 2         \* calls of Expand_Series explored per series
MAX_EXPAND_LIST == 3  \* slots of the recently expanded list

VARIABLES
    \* ---- host loop (%host-main.c) ----
    pc,                     \* position of main()
    ctrl_c_enabled,         \* bool ctrl_c_enabled
    code,                   \* kind of the REBVAL *code instruction
    code_int,               \* value of code when it is an INTEGER!
    result,                 \* kind of the REBVAL *result
    no_recover,             \* bool no_recover
    PG_Eval,                \* evaluator hook in force
    PG_Dispatcher,          \* dispatcher hook in force
    Trace_Level,
    Trace_Depth,
    saved_eval_hook,
    saved_dispatcher_hook,
    Save_Trace_Level,
    Save_Trace_Depth,
    exit_status,            \* int exit_status
    returned,               \* value returned by main(), NotReturned before
    extensions_shut,        \* rebShutdownExtensions() has run
    devices_quit,           \* OS_QUIT_DEVICES() has run
    handed,                 \* <<code, result>> passed to HOST-CONSOLE
    n_calls,                \* number of HOST-CONSOLE invocations so far
    driver_outcome,         \* how the latest HOST-CONSOLE invocation ended
    code_outcome,           \* how the latest sandboxed instruction ended
    fails_since_group,      \* HOST-CONSOLE failures since a GROUP! last ran
    \* ---- series expansion (%m-pools.c) ----
    ser,                    \* the REBSER being expanded
    pre,                    \* the same REBSER as it was before the last call
    call,                   \* arguments and outcome of the last call
    Prior_Expand,           \* the recently expanded list
    next_alloc,             \* identity the next data allocation gets
    freed,                  \* calls made to Free_Unbiased_Series_Data
    debug_build,            \* TRUE when built without NDEBUG
    \* ---- memory pools and series lifetime (%m-pools.c) ----
    pool_pc,                \* "boot", "running", "panicked" or "shutdown"
    Mem_Pools,              \* REBPOL Mem_Pools[]: first, last, segs, has, free
    ser_nodes,              \* the nodes of SER_POOL: free, or a live REBSER
    GC_Manuals,             \* node of the manual-tracking series, else 0
    manuals,                \* the REBSER* entries GC_Manuals holds
    pool_event,             \* history: what the last operation did
    last_freed,             \* history: per pool, node freed since last alloc
    trip,                   \* history: an allocation and its matching free
    \* ---- data stack (%c-value.c); DS_Array is the variable ser ----
    ds_pc,                  \* "boot", "running" or "failed"
    DS_Index,               \* REBDSP DS_Index
    DS_Movable_Top,         \* REBVAL *DS_Movable_Top
    ds_event,               \* history: what the last operation did
    \* ---- contexts (%t-object.c) ----
    contexts,               \* the contexts: kind, keylist, vars
    keylists,               \* the keylists: keys, shared flag, ancestor
    ctx_event,              \* history: what the last operation did
    \* ---- typesets (%t-typeset.c) ----
    ts_val,                 \* the bits of the typeset D_ARG(1)
    ts_event,               \* history: what the last verb did
    \* ---- frame stack (%c-value.c) ----
    fs_frames,              \* the frames, FS_BOTTOM first, FS_TOP last
    fs_event,               \* history: what the last operation did
    \* ---- SAVE (%mezz-save.r) ----
    sv_out,                 \* what the last SAVE wrote or returned
    sv_event,               \* history: the arguments of the last SAVE
    \* ---- MONEY! (%t-money.c) ----
    money_out,              \* D_OUT of the last action on a MONEY!
    money_event,            \* history: the arguments of the last action
    \* ---- pairings (%m-pools.c) ----
    unusual_rebval_size,    \* the build defines UNUSUAL_REBVAL_SIZE
    pr_pools,               \* SER_POOL and the pool after it
    pr_pairings,            \* the pairings that are allocated
    pr_event,               \* history: what the last operation did
    \* ---- memory accounting (%m-pools.c) ----
    PG_Mem_Usage,           \* bytes the program counts as allocated
    PG_Mem_Limit,           \* the ceiling, 0 when there is none
    mem_blocks,             \* sizes of the allocations outstanding
    mem_event               \* history: what the last operation did

host_vars == <<pc, ctrl_c_enabled, code, code_int, result, no_recover,
               PG_Eval, PG_Dispatcher, Trace_Level, Trace_Depth,
               saved_eval_hook, saved_dispatcher_hook,
               Save_Trace_Level, Save_Trace_Depth,
               exit_status, returned, extensions_shut, devices_quit,
               handed, n_calls, driver_outcome, code_outcome,
               fails_since_group>>

expand_vars == <<ser, pre, call, Prior_Expand, next_alloc, freed,
                 debug_build>>

pool_vars == <<pool_pc, Mem_Pools, ser_nodes, GC_Manuals, manuals,
               pool_event, last_freed, trip>>

stack_vars == <<ds_pc, DS_Index, DS_Movable_Top, ds_event>>

context_vars == <<contexts, keylists, ctx_event>>

typeset_vars == <<ts_val, ts_event>>

frame_vars == <<fs_frames, fs_event>>

save_vars == <<sv_out, sv_event>>

money_vars == <<money_out, money_event>>

pairing_vars == <<unusual_rebval_size, pr_pools, pr_pairings, pr_event>>

memory_vars == <<PG_Mem_Usage, PG_Mem_Limit, mem_blocks, mem_event>>

vars ==
    <<host_vars, expand_vars, pool_vars, stack_vars, context_vars,
      typeset_vars, frame_vars, save_vars, money_vars, pairing_vars,
      memory_vars>>

\* What an operation of one part of the program leaves alone.
beside_host ==
    <<expand_vars, pool_vars, stack_vars, context_vars, typeset_vars,
      frame_vars, save_vars, money_vars, pairing_vars, memory_vars>>
beside_expand ==
    <<host_vars, pool_vars, stack_vars, context_vars, typeset_vars,
      frame_vars, save_vars, money_vars, pairing_vars, memory_vars>>
expand_but_prior == <<ser, pre, call, next_alloc, freed, debug_build>>
beside_pool ==
    <<host_vars, expand_but_prior, stack_vars, context_vars, typeset_vars,
      frame_vars, save_vars, money_vars, pairing_vars, memory_vars>>
beside_stack ==
    <<host_vars, pre, call, debug_build, pool_vars, context_vars,
      typeset_vars, frame_vars, save_vars, money_vars, pairing_vars,
      memory_vars>>
beside_context ==
    <<host_vars, expand_vars, pool_vars, stack_vars, typeset_vars, frame_vars,
      save_vars, money_vars, pairing_vars, memory_vars>>
beside_typeset ==
    <<host_vars, expand_vars, pool_vars, stack_vars, context_vars, frame_vars,
      save_vars, money_vars, pairing_vars, memory_vars>>
beside_frame ==
    <<host_vars, expand_vars, pool_vars, stack_vars, context_vars,
      typeset_vars, save_vars, money_vars, pairing_vars, memory_vars>>
beside_save ==
    <<host_vars, expand_vars, pool_vars, stack_vars, context_vars,
      typeset_vars, frame_vars, money_vars, pairing_vars, memory_vars>>
beside_money ==
    <<host_vars, expand_vars, pool_vars, stack_vars, context_vars,
      typeset_vars, frame_vars, save_vars, pairing_vars, memory_vars>>
beside_pairing ==
    <<host_vars, expand_vars, pool_vars, stack_vars, context_vars,
      typeset_vars, frame_vars, save_vars, money_vars, memory_vars>>
beside_memory ==
    <<host_vars, expand_vars, pool_vars, stack_vars, context_vars,
      typeset_vars, frame_vars, save_vars, money_vars, pairing_vars>>

Hooks == {"core", "custom"}
NotReturned == -1
ExitCodes == 0..MaxExit
TraceLevels == 0..MaxTrace

\* What the HOST-CONSOLE invocation wrapped in lib/entrap can produce:
\* an ERROR! (the driver failed), or a block holding its return value,
\* which is a BLOCK!, a GROUP! or an INTEGER!.
DriverReturns == {"error", "block", "group", "integer"}

\* What running an instruction can do: evaluate to null, evaluate to a
\* value, or fail.
SandboxOutcomes == {"null", "value", "fail"}

(***************************************************************************)
(* Series (sys-rebser.h)                                                   *)
(*                                                                         *)
(* A series is a record:                                                   *)
(*   wide_byte   WIDE_BYTE_OR_0: 0 for an array, else the element width    *)
(*   len_byte    LEN_BYTE_OR_255: 255 when dynamic, else the length        *)
(*   data, len, rest, bias   the fields of struct Reb_Series_Dynamic;      *)
(*               data is the byte offset of the data pointer from the      *)
(*               start of the allocation it points into                    *)
(*   fixed_size, power_of_2  SERIES_FLAG_FIXED_SIZE, SERIES_FLAG_POWER_OF_2*)
(*   alloc       identity of the data allocation, NoAlloc when embedded    *)
(*   buf         the units of the allocation (0-based), or of the embedded *)
(*               content of the node when the series is not dynamic        *)
(***************************************************************************)

SizeofCell == 32      \* sizeof(REBVAL), four pointers, 64-bit build
SizeofContent == 32   \* sizeof(union Reb_Series_Content): one cell
DeltaHuge == -1       \* 0xFFFFFFFF: a REBCNT delta with bit 31 set, read
                      \* as a 32-bit two's complement number

NoAlloc == 0
NullSer == 0          \* an empty slot of Prior_Expand
Sentinel == 1         \* (REBSER*)1, kept in Prior_Expand[0]
SerId == 2            \* the series under expansion
OtherId == 3          \* some other series

TERM == 0             \* a terminator unit
TRASH == -1           \* a cell formatted by Prep_Non_Stack_Cell
JUNK == -2            \* memory nothing has been written to

Min(S) == CHOOSE m \in S : \A o \in S : m <= o
Max(S) == CHOOSE m \in S : \A o \in S : m >= o

IS_SER_ARRAY(s) == s.wide_byte = 0

IS_SER_DYNAMIC(s) == s.len_byte = 255

SER_WIDE(s) == IF s.wide_byte = 0 THEN SizeofCell ELSE s.wide_byte

\* The bias is kept in the upper 16 bits of content.dynamic.bias; the
\* field `bias` of the record is that upper half.
SER_BIAS(s) == s.bias % 65536

SER_REST(s) ==
    IF s.len_byte = 255 THEN s.rest
    ELSE IF IS_SER_ARRAY(s) THEN 2
    ELSE SizeofContent \div SER_WIDE(s)

SER_SUB_BIAS(s, b) == [s EXCEPT !.bias = (@ - b) % 65536]

SER_TOTAL(s) == (SER_REST(s) + SER_BIAS(s)) * SER_WIDE(s)

\* SER_LEN(): the dynamic length, or the length byte of the node.
SER_LEN(s) == IF IS_SER_DYNAMIC(s) THEN s.len ELSE s.len_byte

\* SET_SERIES_LEN(): stores the length where SER_LEN() reads it.
SET_SERIES_LEN(s, len) ==
    IF IS_SER_DYNAMIC(s) THEN [s EXCEPT !.len = len]
    ELSE [s EXCEPT !.len_byte = len]

\* SER_DATA_RAW(): byte offset of the head of the data inside buf.
SER_DATA_RAW(s) == IF IS_SER_DYNAMIC(s) THEN s.data ELSE 0

\* Index in buf of the unit at position k of the series.
UnitAt(s, k) == (SER_DATA_RAW(s) \div SER_WIDE(s)) + k

\* SER_AT(): the unit at position k of the series.
SER_AT(s, k) == s.buf[UnitAt(s, k)]

\* TERM_SERIES(): an array that lives in its node is terminated by the info
\* bits that follow the content; anything else gets a terminator unit.
TERM_SERIES(s) ==
    IF IS_SER_ARRAY(s) /\ ~IS_SER_DYNAMIC(s) THEN s
    ELSE [s EXCEPT !.buf[UnitAt(s, SER_LEN(s))] = TERM]

\* Prep_Non_Stack_Cell() on positions from..(to - 1) of the series.
Prep_Cells(s, from, to) ==
    [s EXCEPT !.buf = [u \in DOMAIN s.buf |->
        IF u >= UnitAt(s, from) /\ u < UnitAt(s, to) THEN TRASH
        ELSE s.buf[u]]]

\* memmove()/memcpy() of n units inside one buffer, overlap allowed.
MemMove(buf, dst, src, n) ==
    [u \in DOMAIN buf |->
        IF u >= dst /\ u < dst + n THEN buf[u - dst + src] ELSE buf[u]]

RECURSIVE Pow2From(_, _)
Pow2From(p, n) == IF p >= n THEN p ELSE Pow2From(2 * p, n)

\* Smallest power of two that is at least n.
Pow2Ceil(n) == Pow2From(1, n)

\* Did_Series_Data_Alloc(), when the allocation is satisfied: the series
\* gets a fresh data buffer of at least `length` units (rounded up to a
\* power of two of bytes when SERIES_FLAG_POWER_OF_2 is set), with no bias
\* and length 0.
Did_Series_Data_Alloc(s, length, newid) ==
    LET wide == SER_WIDE(s)
        size == IF s.power_of_2 THEN Pow2Ceil(length * wide)
                ELSE length * wide
        units == size \div wide
    IN  [s EXCEPT !.data = 0, !.len = 0, !.rest = units, !.bias = 0,
                  !.alloc = newid,
                  !.buf = [u \in 0..(units - 1) |-> JUNK]]

(***************************************************************************)
(* Expand_Series (%m-pools.c)                                              *)
(*                                                                         *)
(* Each path gives a record: the series after the call, the recently       *)
(* expanded list after the call, the calls made to                         *)
(* Free_Unbiased_Series_Data, how the call ended and which path it took.   *)
(***************************************************************************)

Done(s, prior, frees, outcome, strategy) ==
    [s |-> s, prior |-> prior, frees |-> frees,
     outcome |-> outcome, strategy |-> strategy]

\* Expand_Series lines 718-743: head insertion into the bias.
Head_Insertion(s, delta, debug) ==
    LET wide == SER_WIDE(s)
        s1 == SER_SUB_BIAS(
                  [s EXCEPT !.data = @ - wide * delta,
                            !.len = @ + delta,
                            !.rest = @ + delta], delta)
    IN  IF debug /\ IS_SER_ARRAY(s1) THEN Prep_Cells(s1, 0, delta) ELSE s1

\* Expand_Series lines 752-794: the allocation has room, slide the tail.
Slide_In_Place_Mutant(s, index, delta, debug) ==
    LET wide == SER_WIDE(s)
        len_old == SER_LEN(s)
        start == index * wide
        extra == delta * wide
        size == len_old * wide
        base == SER_DATA_RAW(s)
        moved == [s EXCEPT !.buf = MemMove(s.buf,
                                       (base + start + extra) \div wide,
                                       (base + start + extra) \div wide,
                                       (size - start) \div wide)]
        s1 == TERM_SERIES(SET_SERIES_LEN(moved, len_old + delta))
    IN  IF debug /\ IS_SER_ARRAY(s1)
        THEN Prep_Cells(s1, index, index + delta)
        ELSE s1

Slide_In_Place(s, index, delta, debug) ==
    LET wide == SER_WIDE(s)
        len_old == SER_LEN(s)
        start == index * wide
        extra == delta * wide
        size == len_old * wide
        base == SER_DATA_RAW(s)
        moved == [s EXCEPT !.buf = MemMove(s.buf,
                                       (base + start + extra) \div wide,
                                       (base + start) \div wide,
                                       (size - start) \div wide)]
        s1 == TERM_SERIES(SET_SERIES_LEN(moved, len_old + delta))
    IN  IF debug /\ IS_SER_ARRAY(s1)
        THEN Prep_Cells(s1, index, index + delta)
        ELSE s1

\* Expand_Series lines 816-826: has this series been expanded recently?
\* Gives <<x, n_found, n_available>>.
Recently_Expanded(s, delta, prior) ==
    LET hits == {n \in 0..(MAX_EXPAND_LIST - 1) : prior[n] = SerId}
        n_found == IF hits = {} THEN MAX_EXPAND_LIST ELSE Min(hits)
        avail == {n \in 0..(n_found - 1) : prior[n] = NullSer}
        n_available == IF avail = {} THEN 0 ELSE Max(avail)
        x == IF hits = {} THEN 1 ELSE SER_LEN(s) + delta + 1
    IN  <<x, n_found, n_available>>

\* Expand_Series lines 796-900: a new allocation is required.
New_Allocation(s, index, delta, prior, newid, alloc_ok, debug) ==
    IF s.fixed_size
    THEN Done(s, prior, {}, "locked", "realloc")
    ELSE
    LET wide == SER_WIDE(s)
        len_old == SER_LEN(s)
        was_dynamic == IS_SER_DYNAMIC(s)
        found == Recently_Expanded(s, delta, prior)
        x == found[1]
        n_found == found[2]
        n_available == found[3]
        old_unit == SER_DATA_RAW(s) \div wide   \* data_old, in units
        marked == [s EXCEPT !.len_byte = 255, !.power_of_2 = TRUE]
    IN  IF ~alloc_ok
        THEN Done(marked, prior, {}, "no_memory", "realloc")
        ELSE
        LET fresh == Did_Series_Data_Alloc(marked, len_old + delta + x, newid)
            prepped == IF IS_SER_ARRAY(fresh)
                       THEN Prep_Cells(fresh, 0, fresh.rest)
                       ELSE fresh
            prior2 == IF n_found >= MAX_EXPAND_LIST
                      THEN [prior EXCEPT ![n_available] = SerId]
                      ELSE prior
            copied == [prepped EXCEPT !.buf = [u \in DOMAIN prepped.buf |->
                          IF u < index THEN s.buf[old_unit + u]
                          ELSE IF u >= index + delta /\ u < len_old + delta
                          THEN s.buf[old_unit + u - delta]
                          ELSE prepped.buf[u]],
                       !.len = len_old + delta]
            frees == IF was_dynamic
                     THEN {<<s.alloc, s.data - wide * SER_BIAS(s),
                             SER_TOTAL(s)>>}
                     ELSE {}
        IN  Done(TERM_SERIES(copied), prior2, frees, "ok", "realloc")

\* Expand_Series lines 705-900.
Expand_Series(s, index, delta, prior, newid, alloc_ok, debug) ==
    IF delta < 0      \* delta & 0x80000000
    THEN Done(s, prior, {}, "past_end", "none")
    ELSE IF delta = 0
    THEN Done(s, prior, {}, "ok", "none")
    ELSE IF IS_SER_DYNAMIC(s) /\ index = 0 /\ SER_BIAS(s) >= delta
    THEN Done(Head_Insertion(s, delta, debug), prior, {}, "ok", "head")
    ELSE IF (SER_LEN(s) * SER_WIDE(s) + delta * SER_WIDE(s) + SER_WIDE(s))
                <= SER_REST(s) * SER_WIDE(s)
    THEN Done(Slide_In_Place(s, index, delta, debug), prior, {}, "ok",
              "inplace")
    ELSE New_Allocation(s, index, delta, prior, newid, alloc_ok, debug)

(***************************************************************************)
(* The expansion specification: Expand_Series called, again and again, on  *)
(* a series of known content.                                              *)
(***************************************************************************)

Wides == {0, 2}       \* arrays (wide byte 0) and REBUNI series

\* A dynamic series of the given shape holding the elements 1..len.
Dynamic_Series(wide_byte, len, slack, bias, fixed) ==
    [wide_byte |-> wide_byte, len_byte |-> 255,
     data |-> bias * (IF wide_byte = 0 THEN SizeofCell ELSE wide_byte),
     len |-> len, rest |-> len + 1 + slack, bias |-> bias,
     fixed_size |-> fixed, power_of_2 |-> FALSE, alloc |-> 1,
     buf |-> [u \in 0..(bias + len + slack) |->
                 IF u < bias THEN JUNK
                 ELSE IF u < bias + len THEN u - bias + 1
                 ELSE IF u = bias + len THEN TERM
                 ELSE JUNK]]

\* Units the content of a node can hold (an array: one cell).
Embedded_Units(wide_byte) ==
    IF wide_byte = 0 THEN 1 ELSE SizeofContent \div wide_byte

\* A series living in its node, holding the elements 1..len.
Embedded_Series(wide_byte, len, fixed) ==
    [wide_byte |-> wide_byte, len_byte |-> len,
     data |-> 0, len |-> 0, rest |-> 0, bias |-> 0,
     fixed_size |-> fixed, power_of_2 |-> FALSE, alloc |-> NoAlloc,
     buf |-> [u \in 0..(Embedded_Units(wide_byte) - 1) |->
                 IF u < len THEN u + 1
                 ELSE IF u = len THEN TERM
                 ELSE JUNK]]

InitialSeries ==
    {Dynamic_Series(w, l, k, b, f) :
        w \in Wides, l \in 0..MaxLen, k \in 0..MaxSlack, b \in 0..MaxBias,
        f \in BOOLEAN}
    \cup
    {Embedded_Series(w, l, f) :
        w \in Wides, l \in 0..1, f \in BOOLEAN}
    \cup
    UNION {{Embedded_Series(w, l, f) :
               l \in ((Embedded_Units(w) - 1 - MaxDelta)
                          ..(Embedded_Units(w) - 1)),
               f \in BOOLEAN} : w \in Wides \ {0}}

\* Startup_Pools lines 307-309: slot 0 holds the sentinel; the other slots
\* are empty or hold series expanded earlier, each at most once.
InitialPriorExpand ==
    {p \in [0..(MAX_EXPAND_LIST - 1) -> {NullSer, Sentinel, SerId, OtherId}] :
        /\ p[0] = Sentinel
        /\ \A n \in 1..(MAX_EXPAND_LIST - 1) : p[n] # Sentinel
        /\ Cardinality({n \in DOMAIN p : p[n] = SerId}) <= 1
        /\ \/ \A n \in 1..(MAX_EXPAND_LIST - 1) : p[n] = NullSer
           \/ \A n \in 1..(MAX_EXPAND_LIST - 1) : p[n] = OtherId
           \/ /\ p[MAX_EXPAND_LIST - 1] = SerId
              /\ \A n \in 1..(MAX_EXPAND_LIST - 2) : p[n] = NullSer}

NoCall ==
    [n |-> 0, index |-> 0, delta |-> 0, outcome |-> "none",
     strategy |-> "none", next_alloc |-> 0, frees |-> {}]

\* The insertion points tried: every one of a short series, those next to
\* the head and to the tail of a long one.
IndexChoices(s) ==
    {i \in 0..SER_LEN(s) : i <= MaxLen \/ i >= SER_LEN(s) - 1}

\* One call of Expand_Series(ser, index, delta).  A call that fails unwinds
\* to whoever trapped it; the series is not expanded any further then.
Expand(index, delta, alloc_ok) ==
    /\ call.outcome \in {"none", "ok"}
    /\ delta <= 0 => index = 0
    /\ call.n < MaxCalls
    /\ index <= SER_LEN(ser)
    /\ LET r == Expand_Series(ser, index, delta, Prior_Expand, next_alloc,
                              alloc_ok, debug_build)
       IN  /\ r.strategy # "realloc" => alloc_ok
           /\ pre' = ser
           /\ ser' = r.s
           /\ Prior_Expand' = r.prior
           /\ freed' = freed \cup r.frees
           /\ next_alloc' = IF r.s.alloc = next_alloc
                            THEN next_alloc + 1 ELSE next_alloc
           /\ call' = [n |-> call.n + 1, index |-> index, delta |-> delta,
                       outcome |-> r.outcome, strategy |-> r.strategy,
                       next_alloc |-> next_alloc, frees |-> r.frees]
    /\ UNCHANGED debug_build
    /\ UNCHANGED beside_expand

ExpandNext ==
    \E index \in IndexChoices(ser),
       delta \in (0..MaxDelta) \cup {DeltaHuge}, alloc_ok \in BOOLEAN :
        Expand(index, delta, alloc_ok)

\* The expansion variables while the host loop is what is looked at.
ExpandParked ==
    /\ ser = Embedded_Series(0, 0, FALSE)
    /\ pre = ser
    /\ call = NoCall
    /\ Prior_Expand = [n \in 0..(MAX_EXPAND_LIST - 1) |->
                          IF n = 0 THEN Sentinel ELSE NullSer]
    /\ next_alloc = 2
    /\ freed = {}
    /\ debug_build = FALSE

(***************************************************************************)
(* Memory pools (%m-pools.c)                                               *)
(*                                                                         *)
(* A pool is a record:                                                     *)
(*   first   the free list, from pool->first along next_if_free            *)
(*   last    pool->last, NullNode when null                                *)
(*   segs    number of segments on pool->segs                              *)
(*   has     pool->has                                                     *)
(*   free    pool->free                                                    *)
(* The nodes of a pool are numbered in address order: segment k (from 0)   *)
(* holds the nodes k * PoolUnits + 1 .. (k + 1) * PoolUnits.  Two pooled   *)
(* size classes are followed: one class of series data and the pool of     *)
(* series nodes; SYSTEM_POOL stands for allocations too large to pool.     *)
(*                                                                         *)
(* A node of SER_POOL is a record:                                         *)
(*   live          FALSE while the node is on the free list                *)
(*   managed       NODE_FLAG_MANAGED                                       *)
(*   stack         SERIES_FLAG_STACK                                       *)
(*   inaccessible  SERIES_INFO_INACCESSIBLE                                *)
(*   data          NoData when the content is in the node, SystemData for *)
(*                 a system allocation, else the node of DATA_POOL        *)
(*   was_managed   history: NODE_FLAG_MANAGED has been set on the series   *)
(*   decays        history: calls of Decay_Series on the series            *)
(***************************************************************************)

MaxSegs == 2          \* segments a pool may be filled with
MaxSeries == 2        \* series alive at once beside GC_Manuals
MaxManuals == 2       \* entries GC_Manuals may hold
MaxSystemFrees == 0   \* value of the system pool's free counter that
                      \* still lets a system-sized series be made

DATA_POOL == 1
SER_POOL == 2
SYSTEM_POOL == 3
PooledPools == {DATA_POOL, SER_POOL}
PoolUnits == 2        \* pool->units: never below 2
MEM_BIG_SIZE == 1024
PooledTotal == 64     \* a data size that FIND_POOL maps to DATA_POOL
SystemTotal == 8192   \* a data size beyond 4 * MEM_BIG_SIZE
NullNode == 0
NoData == 0
SystemData == -1

EmptyPool ==
    [first |-> <<>>, last |-> NullNode, segs |-> 0, has |-> 0, free |-> 0]

FreeSeries ==
    [live |-> FALSE, managed |-> FALSE, stack |-> FALSE,
     inaccessible |-> FALSE, data |-> NoData, was_managed |-> FALSE,
     decays |-> 0]

SerNodes == 1..(MaxSegs * PoolUnits)

FIND_POOL(total) ==
    IF total <= 4 * MEM_BIG_SIZE THEN DATA_POOL ELSE SYSTEM_POOL

\* Fill_Pool: a new segment, its nodes threaded onto the end of the free
\* list; panics when the segment cannot be allocated.
Fill_Pool_Mutant(pool, alloc_ok) ==
    LET units == PoolUnits
        seg == [u \in 1..units |-> pool.segs * units + u]
    IN  IF ~alloc_ok
        THEN [pool |-> pool, panic |-> TRUE]
        ELSE [pool |-> [pool EXCEPT
                            !.segs = @ + 1,
                            !.has = @ + units,
                            !.first = IF pool.first = <<>>
                                      THEN seg ELSE pool.first \o seg,
                            !.last = seg[units]],
              panic |-> FALSE]
Fill_Pool(pool, alloc_ok) ==
    LET units == PoolUnits
        seg == [u \in 1..units |-> pool.segs * units + u]
    IN  IF ~alloc_ok
        THEN [pool |-> pool, panic |-> TRUE]
        ELSE [pool |-> [pool EXCEPT
                            !.segs = @ + 1,
                            !.has = @ + units,
                            !.free = @ + units,
                            !.first = IF pool.first = <<>>
                                      THEN seg ELSE pool.first \o seg,
                            !.last = seg[units]],
              panic |-> FALSE]

\* Make_Node: pops the free list, after Fill_Pool when the list is empty.
Make_Node(pool, alloc_ok) ==
    LET must_fill == pool.first = <<>>
        fill == IF must_fill THEN Fill_Pool(pool, alloc_ok)
                ELSE [pool |-> pool, panic |-> FALSE]
        node == Head(fill.pool.first)
    IN  IF fill.panic
        THEN [pool |-> pool, node |-> NullNode, filled |-> FALSE,
              panic |-> TRUE]
        ELSE [pool |-> [fill.pool EXCEPT
                            !.first = Tail(@),
                            !.free = @ - 1,
                            !.last = IF @ = node THEN NullNode ELSE @],
              node |-> node, filled |-> must_fill, panic |-> FALSE]

\* Free_Node: pushes the node on the free list.
Free_Node(pool, node) ==
    [pool EXCEPT !.first = <<node>> \o @, !.free = @ + 1]

\* Free_Unbiased_Series_Data: pooled data goes on the front of its pool's
\* free list; larger data goes back to the system.
Free_Unbiased_Series_Data_Mutant(pools, unbiased, total) ==
    LET pool_num == FIND_POOL(total)
    IN  IF pool_num < SYSTEM_POOL
        THEN [pools EXCEPT ![pool_num].first = @ \o <<unbiased>>,
                           ![pool_num].free = @ + 1]
        ELSE [pools EXCEPT ![SYSTEM_POOL].has = @ - total,
                           ![SYSTEM_POOL].free = @ + 1]
Free_Unbiased_Series_Data(pools, unbiased, total) ==
    LET pool_num == FIND_POOL(total)
    IN  IF pool_num < SYSTEM_POOL
        THEN [pools EXCEPT ![pool_num].first = <<unbiased>> \o @,
                           ![pool_num].free = @ + 1]
        ELSE [pools EXCEPT ![SYSTEM_POOL].has = @ - total,
                           ![SYSTEM_POOL].free = @ + 1]

\* The data of a series: its total size, taken from or given back to a pool.
DataTotal(data) == IF data = SystemData THEN SystemTotal ELSE PooledTotal

\* Removes the series from slots 1.. of the recently expanded list.
Unlist_Expanded(prior, s) ==
    [n \in DOMAIN prior |->
        IF n >= 1 /\ prior[n] = s THEN NullSer ELSE prior[n]]

\* Decay_Series, on a heap [pools, nodes, prior].  The interning of UTF-8
\* strings, the cleaner of a HANDLE! and the collector's ballast are outside
\* the pool state.
Decay_Series(h, s) ==
    LET n == h.nodes[s]
    IN  [pools |-> IF n.data # NoData
                   THEN Free_Unbiased_Series_Data(h.pools, n.data,
                                                  DataTotal(n.data))
                   ELSE h.pools,
         nodes |-> [h.nodes EXCEPT ![s].data = NoData,
                                   ![s].inaccessible = TRUE,
                                   ![s].decays = @ + 1],
         prior |-> Unlist_Expanded(h.prior, s)]

\* GC_Kill_Series: decays the series unless it is inaccessible already, then
\* gives its node back to SER_POOL.  The node record keeps the count of
\* decays until the node is allocated again.
GC_Kill_Series_Mutant(h, s) ==
    LET d == Decay_Series(h, s)
    IN  [pools |-> [d.pools EXCEPT ![SER_POOL] = Free_Node(@, s)],
         nodes |-> [d.nodes EXCEPT ![s] = [FreeSeries EXCEPT
                                              !.decays = d.nodes[s].decays]],
         prior |-> d.prior]
GC_Kill_Series(h, s) ==
    LET d == IF ~h.nodes[s].inaccessible THEN Decay_Series(h, s) ELSE h
    IN  [pools |-> [d.pools EXCEPT ![SER_POOL] = Free_Node(@, s)],
         nodes |-> [d.nodes EXCEPT ![s] = [FreeSeries EXCEPT
                                              !.decays = d.nodes[s].decays]],
         prior |-> d.prior]

\* Position of the entry Untrack_Manual_Series overwrites: the last one when
\* it is s, else the nearest earlier entry that is s.
Manual_Position(m, s) ==
    Max({i \in 1..Len(m) : m[i] = s})

Untrack_Manual_Series(m, s) ==
    LET last == Len(m)
        moved == IF m[last] # s
                 THEN [m EXCEPT ![Manual_Position(m, s)] = m[last]]
                 ELSE m
    IN  SubSeq(moved, 1, last - 1)

(***************************************************************************)
(* The pool specification: Startup_Pools, then series made, promoted,      *)
(* decayed and freed in any order, then Shutdown_Pools.                    *)
(***************************************************************************)

DataKinds == {"none", "pooled", "system"}

NoPoolAlloc ==
    [node |-> NullNode, expect |-> NullNode, filled |-> FALSE,
     free_before |-> 0]

\* What the last operation did: the node it was about; whether Fill_Pool
\* panicked or the operation failed with Error_No_Memory; per pool the node
\* it allocated (with the node last_freed named then, whether a segment was
\* filled and the free count before) and the node it freed; for a kill,
\* what the series was.
PoolEvent(op, node) ==
    [op |-> op, node |-> node, panic |-> FALSE, fail |-> FALSE,
     leak |-> FALSE,
     allocs |-> [p \in PooledPools |-> NoPoolAlloc],
     freed |-> [p \in PooledPools |-> NullNode],
     killed |-> FALSE, was_managed |-> FALSE, managed |-> FALSE,
     was_decayed |-> FALSE]

AllocOf(r, p) ==
    [node |-> r.node, expect |-> last_freed[p], filled |-> r.filled,
     free_before |-> Mem_Pools[p].free]

NoTrip ==
    [phase |-> "none", node |-> NullNode,
     free |-> [p \in PooledPools |-> 0],
     filled |-> [p \in PooledPools |-> FALSE]]

Heap == [pools |-> Mem_Pools, nodes |-> ser_nodes, prior |-> Prior_Expand]

\* The state after an operation, the history variables brought up to date.
PoolCommit(h, m, gcm, pc2, e) ==
    /\ Mem_Pools' = h.pools
    /\ ser_nodes' = h.nodes
    /\ Prior_Expand' = h.prior
    /\ manuals' = m
    /\ GC_Manuals' = gcm
    /\ pool_pc' = pc2
    /\ pool_event' = e
    /\ last_freed' = [p \in PooledPools |->
                         IF e.freed[p] # NullNode THEN e.freed[p]
                         ELSE IF e.allocs[p].node # NullNode THEN NullNode
                         ELSE last_freed[p]]
    /\ trip' = IF e.op = "Make_Series" /\ ~e.panic /\ ~e.fail
               THEN [phase |-> "allocated", node |-> e.node,
                     free |-> [p \in PooledPools |-> Mem_Pools[p].free],
                     filled |-> [p \in PooledPools |-> e.allocs[p].filled]]
               ELSE IF e.killed /\ trip.phase = "allocated"
                       /\ e.node = trip.node
               THEN [trip EXCEPT !.phase = "freed"]
               ELSE NoTrip
    /\ UNCHANGED beside_pool

LiveSeries == {n \in SerNodes : ser_nodes[n].live}

\* Startup_Pools: the pools are empty; GC_Manuals is made with
\* NODE_FLAG_MANAGED, so that it is not tracked, and the flag is cleared;
\* the recently expanded list is cleared.
Startup_Pools(ok_node, ok_data) ==
    /\ pool_pc = "boot"
    /\ ~ok_node => ok_data
    /\ LET rs == Make_Node(Mem_Pools[SER_POOL], ok_node)
           rd == Make_Node(Mem_Pools[DATA_POOL], ok_data)
           e == PoolEvent("Startup_Pools", rs.node)
           prior == [n \in DOMAIN Prior_Expand |->
                        IF n = 0 THEN Sentinel ELSE NullSer]
       IN  IF rs.panic
           THEN PoolCommit(Heap, manuals, GC_Manuals, "panicked",
                           [e EXCEPT !.panic = TRUE])
           ELSE IF rd.panic
           THEN PoolCommit([Heap EXCEPT !.pools[SER_POOL] = rs.pool],
                           manuals, GC_Manuals, "panicked",
                           [e EXCEPT !.panic = TRUE,
                                     !.allocs[SER_POOL] =
                                         AllocOf(rs, SER_POOL)])
           ELSE PoolCommit(
                    [pools |-> [Mem_Pools EXCEPT ![SER_POOL] = rs.pool,
                                                 ![DATA_POOL] = rd.pool],
                     nodes |-> [ser_nodes EXCEPT ![rs.node] =
                                   [FreeSeries EXCEPT !.live = TRUE,
                                                      !.data = rd.node,
                                                      !.was_managed = TRUE]],
                     prior |-> prior],
                    <<>>, rs.node, "running",
                    [e EXCEPT !.allocs[SER_POOL] = AllocOf(rs, SER_POOL),
                              !.allocs[DATA_POOL] = AllocOf(rd, DATA_POOL)])

\* Make_Ser_Core: a node from SER_POOL, data of the asked kind, and an
\* entry in GC_Manuals unless NODE_FLAG_MANAGED is passed.  A series with
\* SERIES_FLAG_STACK is the varlist of a frame: a dynamic array, not managed
\* when made.
Make_Series(kind, managed, stack, ok_node, ok_data) ==
    /\ pool_pc = "running"
    /\ Cardinality(LiveSeries) <= MaxSeries
    /\ ~managed => Len(manuals) < MaxManuals
    /\ Mem_Pools[SER_POOL].first = <<>> => Mem_Pools[SER_POOL].segs < MaxSegs
    /\ (kind = "pooled" /\ Mem_Pools[DATA_POOL].first = <<>>)
           => Mem_Pools[DATA_POOL].segs < MaxSegs
    /\ kind = "system" => Mem_Pools[SYSTEM_POOL].free <= MaxSystemFrees
    /\ Mem_Pools[SER_POOL].first # <<>> => ok_node
    /\ ~ok_node => ok_data
    /\ kind = "none" => ok_data
    /\ stack => (kind = "pooled" /\ ~managed)
    /\ (kind = "pooled" /\ Mem_Pools[DATA_POOL].first # <<>>) => ok_data
    /\ LET rs == Make_Node(Mem_Pools[SER_POOL], ok_node)
           rd == IF kind = "pooled"
                 THEN Make_Node(Mem_Pools[DATA_POOL], ok_data)
                 ELSE [pool |-> Mem_Pools[DATA_POOL],
                       node |-> IF kind = "system" THEN SystemData
                                ELSE NoData,
                       filled |-> FALSE, panic |-> FALSE]
           e == [PoolEvent("Make_Series", rs.node) EXCEPT
                     !.allocs[SER_POOL] = AllocOf(rs, SER_POOL)]
       IN  IF rs.panic
           THEN PoolCommit(Heap, manuals, GC_Manuals, "panicked",
                           [PoolEvent("Make_Series", NullNode) EXCEPT
                                !.panic = TRUE])
           ELSE IF rd.panic
           THEN PoolCommit([Heap EXCEPT !.pools[SER_POOL] = rs.pool],
                           manuals, GC_Manuals, "panicked",
                           [e EXCEPT !.panic = TRUE])
           ELSE IF kind = "system" /\ ~ok_data
           THEN PoolCommit([Heap EXCEPT !.pools[SER_POOL] =
                                            Free_Node(rs.pool, rs.node)],
                           manuals, GC_Manuals, "running",
                           [e EXCEPT !.fail = TRUE,
                                     !.freed[SER_POOL] = rs.node])
           ELSE PoolCommit(
                    [Heap EXCEPT
                        !.pools[SER_POOL] = rs.pool,
                        !.pools[DATA_POOL] = rd.pool,
                        !.pools[SYSTEM_POOL].has =
                            IF kind = "system" THEN @ + SystemTotal ELSE @,
                        !.nodes[rs.node] =
                            [FreeSeries EXCEPT !.live = TRUE,
                                               !.managed = managed,
                                               !.stack = stack,
                                               !.data = rd.node,
                                               !.was_managed = managed]],
                    IF managed THEN manuals ELSE Append(manuals, rs.node),
                    GC_Manuals, "running",
                    IF kind = "pooled"
                    THEN [e EXCEPT !.allocs[DATA_POOL] =
                                       AllocOf(rd, DATA_POOL)]
                    ELSE e)

\* Manage_Series: sets NODE_FLAG_MANAGED and takes the series out of
\* GC_Manuals.  Called on series that are not managed yet.
Manage_Series(s) ==
    /\ pool_pc = "running"
    /\ s \in LiveSeries
    /\ s # GC_Manuals
    /\ ~ser_nodes[s].managed
    /\ PoolCommit([Heap EXCEPT !.nodes[s].managed = TRUE,
                               !.nodes[s].was_managed = TRUE],
                  Untrack_Manual_Series(manuals, s), GC_Manuals, "running",
                  PoolEvent("Manage_Series", s))

\* INIT_BINDING_MAY_MANAGE: a binding that is not managed is a varlist with
\* SERIES_FLAG_STACK; unless the cell written is transient the binding gets
\* NODE_FLAG_MANAGED.
INIT_BINDING_MAY_MANAGE(binding, transient) ==
    /\ pool_pc = "running"
    /\ binding \in LiveSeries
    /\ binding # GC_Manuals
    /\ ser_nodes[binding].managed \/ transient \/ ser_nodes[binding].stack
    /\ PoolCommit(IF ser_nodes[binding].managed \/ transient
                  THEN Heap
                  ELSE [Heap EXCEPT !.nodes[binding].managed = TRUE,
                                    !.nodes[binding].was_managed = TRUE],
                  manuals, GC_Manuals, "running",
                  PoolEvent("INIT_BINDING_MAY_MANAGE", binding))

\* What a kill of series s leaves in the history.
KillEvent(op, s) ==
    [PoolEvent(op, s) EXCEPT
        !.killed = TRUE,
        !.was_managed = ser_nodes[s].was_managed,
        !.managed = ser_nodes[s].managed,
        !.was_decayed = ser_nodes[s].inaccessible,
        !.freed = [p \in PooledPools |->
                      IF p = SER_POOL THEN s
                      ELSE IF ser_nodes[s].data \in {NoData, SystemData}
                      THEN NullNode ELSE ser_nodes[s].data]]

\* Free_Unmanaged_Series: untracks and kills a series that is not managed.
Free_Unmanaged_Series_Mutant(s) ==
    /\ pool_pc = "running"
    /\ s \in LiveSeries
    /\ s # GC_Manuals
    /\ PoolCommit(GC_Kill_Series(Heap, s),
                  IF \E i \in 1..Len(manuals) : manuals[i] = s
                  THEN Untrack_Manual_Series(manuals, s) ELSE manuals,
                  GC_Manuals, "running",
                  KillEvent("Free_Unmanaged_Series", s))
Free_Unmanaged_Series(s) ==
    /\ pool_pc = "running"
    /\ s \in LiveSeries
    /\ s # GC_Manuals
    /\ ~ser_nodes[s].managed
    /\ PoolCommit(GC_Kill_Series(Heap, s),
                  Untrack_Manual_Series(manuals, s), GC_Manuals, "running",
                  KillEvent("Free_Unmanaged_Series", s))

\* The varlist of a frame is decayed when its call ends.
Frame_Expires(s) ==
    /\ pool_pc = "running"
    /\ s \in LiveSeries
    /\ s # GC_Manuals
    /\ ser_nodes[s].stack
    /\ ~ser_nodes[s].inaccessible
    /\ PoolCommit(Decay_Series(Heap, s), manuals, GC_Manuals, "running",
                  [PoolEvent("Decay_Series", s) EXCEPT
                      !.freed[DATA_POOL] =
                          IF ser_nodes[s].data \in {NoData, SystemData}
                          THEN NullNode ELSE ser_nodes[s].data])

\* The collector kills a managed series nothing refers to.
Collector_Kills(s) ==
    /\ pool_pc = "running"
    /\ s \in LiveSeries
    /\ ser_nodes[s].managed
    /\ PoolCommit(GC_Kill_Series(Heap, s), manuals, GC_Manuals, "running",
                  KillEvent("Recycle", s))

\* Shutdown_Pools: kills GC_Manuals; a build with checks panics on a series
\* still alive; the segments and the pools are released.
Shutdown_Pools ==
    /\ pool_pc = "running"
    /\ LET leak == LiveSeries # {GC_Manuals}
       IN  PoolCommit(GC_Kill_Series(Heap, GC_Manuals), manuals, GC_Manuals,
                      IF debug_build /\ leak THEN "panicked" ELSE "shutdown",
                      [KillEvent("Shutdown_Pools", GC_Manuals) EXCEPT
                          !.leak = debug_build /\ leak])

PoolNext ==
    \/ \E ok_node \in BOOLEAN, ok_data \in BOOLEAN :
           Startup_Pools(ok_node, ok_data)
    \/ \E kind \in DataKinds, managed \in BOOLEAN, stack \in BOOLEAN,
          ok_node \in BOOLEAN, ok_data \in BOOLEAN :
           Make_Series(kind, managed, stack, ok_node, ok_data)
    \/ \E s \in SerNodes : Manage_Series(s)
    \/ \E s \in SerNodes, transient \in BOOLEAN :
           INIT_BINDING_MAY_MANAGE(s, transient)
    \/ \E s \in SerNodes : Free_Unmanaged_Series(s)
    \/ \E s \in SerNodes : Frame_Expires(s)
    \/ \E s \in SerNodes : Collector_Kills(s)
    \/ Shutdown_Pools

\* The pool variables while another part of the program is looked at:
\* Startup_Pools has not run.
PoolParked ==
    /\ pool_pc = "boot"
    /\ Mem_Pools = [p \in {DATA_POOL, SER_POOL, SYSTEM_POOL} |-> EmptyPool]
    /\ ser_nodes = [n \in SerNodes |-> FreeSeries]
    /\ GC_Manuals = NullNode
    /\ manuals = <<>>
    /\ pool_event = PoolEvent("none", NullNode)
    /\ last_freed = [p \in PooledPools |-> NullNode]
    /\ trip = NoTrip

(***************************************************************************)
(* The data stack (%c-value.c)                                             *)
(*                                                                         *)
(* DS_Array is a series as above (the variable ser); its cells are         *)
(* UNREADABLE (an unreadable blank), a pushed value, or the terminator.    *)
(* DS_Movable_Top is a pointer: the data allocation it points into and the *)
(* position of the cell in it.                                             *)
(***************************************************************************)

STACK_LIMIT == 18     \* cells the capacity of the data stack stays below
MaxAmount == 2        \* cells a call asks the data stack to grow by

UNREADABLE == -3      \* a cell set by Init_Unreadable_Blank
PushedValue == 1      \* a cell set by a push

\* ARR_AT(DS_Array, n) as a pointer.
Cell_Pointer(s, n) == [alloc |-> s.alloc, index |-> n]

\* Extend_Series: Expand_Series at the tail, the length put back.
Extend_Series(s, delta, prior, newid, alloc_ok, debug) ==
    CHOOSE out \in
        {IF r.outcome = "ok"
         THEN [r EXCEPT !.s = SET_SERIES_LEN(r.s, SER_LEN(s))]
         ELSE r :
             r \in {Expand_Series(s, SER_LEN(s), delta, prior, newid,
                                  alloc_ok, debug)}} : TRUE

\* Expand_Data_Stack_May_Fail lines 598-621, after Extend_Series gave r:
\* DS_Movable_Top is set again, the new cells are made unreadable blanks
\* and the array is terminated at its new length.
Stack_Extended(index, top, len_old, len_new, r) ==
    IF r.outcome # "ok"
    THEN [s |-> r.s, prior |-> r.prior, frees |-> r.frees,
          index |-> index, top |-> top, outcome |-> r.outcome]
    ELSE [s |-> TERM_SERIES(SET_SERIES_LEN(
                    [r.s EXCEPT !.buf = [u \in DOMAIN r.s.buf |->
                        IF u >= UnitAt(r.s, len_old)
                           /\ u < UnitAt(r.s, len_new)
                        THEN UNREADABLE ELSE r.s.buf[u]]],
                    len_new)),
          prior |-> r.prior, frees |-> r.frees, index |-> index,
          top |-> Cell_Pointer(r.s, index), outcome |-> "ok"]

\* Expand_Data_Stack_May_Fail lines 570-623.  Gives the array, the recently
\* expanded list, the data freed, DS_Index, DS_Movable_Top and how the call
\* ended: "ok", "stack_overflow", or the failure of Extend_Series.
Expand_Data_Stack_May_Fail_Mutant(s, index, top, amount, prior, newid, alloc_ok, debug) ==
    IF SER_REST(s) + amount > STACK_LIMIT
    THEN [s |-> s, prior |-> prior, frees |-> {}, index |-> index - 1,
          top |-> top, outcome |-> "stack_overflow"]
    ELSE CHOOSE out \in
             {Stack_Extended(index, top, SER_LEN(s), SER_LEN(s) + amount, r) :
                  r \in {Extend_Series(s, amount, prior, newid, alloc_ok,
                                       debug)}} : TRUE
Expand_Data_Stack_May_Fail(s, index, top, amount, prior, newid, alloc_ok, debug) ==
    IF SER_REST(s) + amount >= STACK_LIMIT
    THEN [s |-> s, prior |-> prior, frees |-> {}, index |-> index - 1,
          top |-> top, outcome |-> "stack_overflow"]
    ELSE CHOOSE out \in
             {Stack_Extended(index, top, SER_LEN(s), SER_LEN(s) + amount, r) :
                  r \in {Extend_Series(s, amount, prior, newid, alloc_ok,
                                       debug)}} : TRUE

\* What the last operation on the data stack was: for a call of
\* Expand_Data_Stack_May_Fail the amount asked, whether memory was to be
\* had, and the length, capacity and DS_Index before the call.
StackEvent(op, amount, alloc_ok, outcome) ==
    [op |-> op, amount |-> amount, alloc_ok |-> alloc_ok,
     outcome |-> outcome, len_old |-> SER_LEN(ser),
     rest_old |-> SER_REST(ser), index_old |-> DS_Index]

\* The state after Expand_Data_Stack_May_Fail gave r, DS_Index and
\* DS_Movable_Top then moved by `drop` cells.
StackCommit(r, drop, pc2, e) ==
    /\ ser' = r.s
    /\ Prior_Expand' = r.prior
    /\ freed' = freed \cup r.frees
    /\ next_alloc' = IF r.s.alloc = next_alloc
                     THEN next_alloc + 1 ELSE next_alloc
    /\ DS_Index' = r.index - drop
    /\ DS_Movable_Top' = [r.top EXCEPT !.index = @ - drop]
    /\ ds_pc' = pc2
    /\ ds_event' = e
    /\ UNCHANGED beside_stack

\* Startup_Data_Stack: the array of one unreadable blank is expanded by
\* `size` as if a push had hit its end, and that push is dropped.
Startup_Data_Stack(size, alloc_ok) ==
    /\ ds_pc = "boot"
    /\ LET made == [Embedded_Series(0, 1, FALSE) EXCEPT
                       !.buf[0] = UNREADABLE]
       IN  \E r \in {Expand_Data_Stack_May_Fail(
                         made, 1, Cell_Pointer(made, 1), size, Prior_Expand,
                         next_alloc, alloc_ok, debug_build)} :
               LET e == [op |-> "expand", amount |-> size,
                         alloc_ok |-> alloc_ok, outcome |-> r.outcome,
                         len_old |-> SER_LEN(made),
                         rest_old |-> SER_REST(made), index_old |-> 1]
               IN  IF r.outcome = "ok"
                   THEN StackCommit(r, 1, "running", e)
                   ELSE StackCommit(r, 0, "failed", e)

\* A push: DS_Index and DS_Movable_Top move up by one; a top that is the
\* terminator asks for `amount` more cells; the cell is then written.
DS_Push(amount, alloc_ok) ==
    /\ ds_pc = "running"
    /\ LET index == DS_Index + 1
           top == [DS_Movable_Top EXCEPT !.index = @ + 1]
       IN  IF index = SER_LEN(ser)
           THEN \E r \in {Expand_Data_Stack_May_Fail(
                              ser, index, top, amount, Prior_Expand,
                              next_alloc, alloc_ok, debug_build)} :
                    /\ (~alloc_ok) => r.outcome = "no_memory"
                    /\ \E pushed \in {IF r.outcome = "ok"
                                       THEN [r EXCEPT
                                                !.s.buf[UnitAt(r.s, index)] =
                                                    PushedValue]
                                       ELSE r} :
                           StackCommit(pushed, 0,
                               IF r.outcome = "ok" THEN "running"
                               ELSE "failed",
                               StackEvent("expand", amount, alloc_ok,
                                          r.outcome))
           ELSE /\ amount = 1
                /\ alloc_ok
                /\ StackCommit(
                       [s |-> [ser EXCEPT !.buf[UnitAt(ser, index)] =
                                              PushedValue],
                        prior |-> Prior_Expand, frees |-> {},
                        index |-> index, top |-> top],
                       0, "running", StackEvent("push", 0, TRUE, "ok"))

\* DS_DROP.
DS_Drop ==
    /\ ds_pc = "running"
    /\ DS_Index > 0
    /\ StackCommit([s |-> ser, prior |-> Prior_Expand, frees |-> {},
                    index |-> DS_Index, top |-> DS_Movable_Top],
                   1, "running", StackEvent("drop", 0, TRUE, "ok"))

StackNext ==
    \/ \E size \in 1..MaxAmount, alloc_ok \in BOOLEAN :
           Startup_Data_Stack(size, alloc_ok)
    \/ \E amount \in 1..MaxAmount, alloc_ok \in BOOLEAN :
           DS_Push(amount, alloc_ok)
    \/ DS_Drop

\* The data stack while another part of the program is looked at:
\* Startup_Data_Stack has not run.
StackParked ==
    /\ DS_Index = 0
    /\ DS_Movable_Top = [alloc |-> NoAlloc, index |-> 0]
    /\ ds_pc = "boot"
    /\ ds_event = [op |-> "none", amount |-> 0, alloc_ok |-> TRUE,
                   outcome |-> "none", len_old |-> 0, rest_old |-> 0,
                   index_old |-> 0]

(***************************************************************************)
(* Contexts (%t-object.c)                                                  *)
(*                                                                         *)
(* A context is its kind, the keylist its varlist links to and its vars    *)
(* (the rootvar at [0] left out); a keylist is its keys (the rootkey left  *)
(* out), SERIES_INFO_SHARED_KEYLIST and its ancestor.  A key is a typeset: *)
(* its bits, the canon of its symbol and whether it is hidden.  Variables  *)
(* are not protected, and every word of a block given to                   *)
(* Append_To_Context is followed by a value.                               *)
(***************************************************************************)

MaxContexts == 2      \* contexts there can be
MaxKeylists == 3      \* keylists there can be
MaxFields == 2        \* fields of a context at the start
MaxSyms == 3          \* canons of the words appended
MaxKeys == 3          \* keys a context grows to
MaxBlock == 2         \* words of a block given to Append_To_Context
MaxVal == 2           \* values of variables

CtxIds == 1..MaxContexts
KeylistIds == 1..MaxKeylists
Symbols == 1..MaxSyms

NulledValue == 0      \* the variable of a key appended without a value
TS_VALUE == 1         \* the bits Append_Context gives a key
TS_WORD == 2          \* the bits of a key that takes words only

NoContext == [live |-> FALSE, kind |-> "none", keylist |-> 0, vars |-> <<>>]
NoKeylist == [live |-> FALSE, keys |-> <<>>, shared |-> FALSE,
              ancestor |-> 0]

Is_Param_Hidden(key) == key.hidden
VAL_KEY_CANON(key) == key.canon

\* Cmp_Value(s, t, is_case): 0 for equal values, else their order.
Cmp_Value(s, t) == IF s = t THEN 0 ELSE IF s < t THEN -1 ELSE 1

CTX_KEYS(h, c) == h.keylists[h.contexts[c].keylist].keys
CTX_VARS(h, c) == h.contexts[c].vars
CTX_LEN(h, c) == Len(CTX_VARS(h, c))

\* The closing loops of Equal_Context (lines 113-120): from key n on, all
\* keys are hidden.
Rest_Is_Hidden(keys, n) ==
    \A m \in n..Len(keys) : Is_Param_Hidden(keys[m])

\* The main loop of Equal_Context (lines 74-107) with key1 at n1 and key2
\* at n2, a position past the last key being the END.
RECURSIVE Equal_Context_From(_, _, _, _, _, _)
Equal_Context_From(keys1, vars1, n1, keys2, vars2, n2) ==
    IF n1 > Len(keys1) \/ n2 > Len(keys2)
    THEN Rest_Is_Hidden(keys1, n1) /\ Rest_Is_Hidden(keys2, n2)
    ELSE IF Is_Param_Hidden(keys1[n1])
    THEN IF n1 + 1 > Len(keys1)
         THEN Rest_Is_Hidden(keys1, n1 + 1) /\ Rest_Is_Hidden(keys2, n2)
         ELSE Equal_Context_From(keys1, vars1, n1 + 1, keys2, vars2, n2)
    ELSE IF Is_Param_Hidden(keys2[n2])
    THEN IF n2 + 1 > Len(keys2)
         THEN Rest_Is_Hidden(keys1, n1) /\ Rest_Is_Hidden(keys2, n2 + 1)
         ELSE Equal_Context_From(keys1, vars1, n1, keys2, vars2, n2 + 1)
    ELSE IF Cmp_Value(keys1[n1].bits, keys2[n2].bits) # 0 THEN FALSE
    ELSE IF VAL_KEY_CANON(keys1[n1]) # VAL_KEY_CANON(keys2[n2]) THEN FALSE
    ELSE IF Cmp_Value(vars1[n1], vars2[n2]) # 0 THEN FALSE
    ELSE Equal_Context_From(keys1, vars1, n1 + 1, keys2, vars2, n2 + 1)

\* Equal_Context lines 35-123, of the contexts val and arg.
Equal_Context_Mutant(h, val, arg) ==
    IF h.contexts[arg].kind # h.contexts[val].kind THEN FALSE
    ELSE IF val = arg THEN TRUE
    ELSE /\ CTX_LEN(h, val) = CTX_LEN(h, arg)
         /\ Equal_Context_From(CTX_KEYS(h, val), CTX_VARS(h, val), 1,
                               CTX_KEYS(h, arg), CTX_VARS(h, arg), 1)
Equal_Context(h, val, arg) ==
    IF h.contexts[arg].kind # h.contexts[val].kind THEN FALSE
    ELSE IF val = arg THEN TRUE
    ELSE Equal_Context_From(CTX_KEYS(h, val), CTX_VARS(h, val), 1,
                            CTX_KEYS(h, arg), CTX_VARS(h, arg), 1)

\* CT_Context lines 251-255.
CT_Context(h, a, b, mode) ==
    IF mode < 0 THEN -1
    ELSE IF Equal_Context(h, a, b) THEN 1 ELSE 0

\* INIT_CTX_KEYLIST_SHARED: the context links to the keylist, which is
\* flagged as shared.
INIT_CTX_KEYLIST_SHARED(h, c, keylist) ==
    [contexts |-> [h.contexts EXCEPT ![c].keylist = keylist],
     keylists |-> [h.keylists EXCEPT ![keylist].shared = TRUE]]

\* Copy_Context_Core_Managed lines 534-570 with types = 0: the vars are
\* copied and the keylist of the original is reused.
Copy_Context_Core_Managed(h, original, copy) ==
    INIT_CTX_KEYLIST_SHARED(
        [h EXCEPT !.contexts[copy] =
             [live |-> TRUE, kind |-> h.contexts[original].kind,
              keylist |-> 0, vars |-> CTX_VARS(h, original)]],
        copy, h.contexts[original].keylist)

\* Expand_Context: a context whose keylist is shared gets a copy of it for
\* itself, the copy remembering the keylist it came from; a keylist that
\* is not shared grows where it is.  `fresh` is the copy's node.
Expand_Context_Mutant(h, c, delta, fresh) == h
Expand_Context(h, c, delta, fresh) ==
    LET keylist == h.contexts[c].keylist
    IN  IF h.keylists[keylist].shared
        THEN [contexts |-> [h.contexts EXCEPT ![c].keylist = fresh],
              keylists |-> [h.keylists EXCEPT ![fresh] =
                  [live |-> TRUE, keys |-> h.keylists[keylist].keys,
                   shared |-> FALSE, ancestor |-> keylist]]]
        ELSE h

\* Append_Context(context, NULL, spelling): a key for the word at the tail
\* of the context's keylist, a nulled variable at the tail of its varlist.
Append_Context(h, c, canon) ==
    [contexts |-> [h.contexts EXCEPT ![c].vars = Append(@, NulledValue)],
     keylists |-> [h.keylists EXCEPT ![h.contexts[c].keylist].keys =
         Append(@, [canon |-> canon, bits |-> TS_VALUE,
                    hidden |-> FALSE])]]

\* Find_Canon_In_Context(context, canon, true): the index of the key, or 0.
Find_Canon_In_Context(h, c, canon) ==
    LET found == {n \in 1..Len(CTX_KEYS(h, c)) :
                      VAL_KEY_CANON(CTX_KEYS(h, c)[n]) = canon}
    IN  IF found = {} THEN 0 ELSE CHOOSE n \in found : \A m \in found : n <= m

\* The words of the block not among `have`, each once, in their order
\* (lines 167-190: what the collect buffer holds past the context's keys).
RECURSIVE Collect_New(_, _)
Collect_New(block, have) ==
    IF block = <<>> THEN <<>>
    ELSE IF Head(block).canon \in have
         THEN Collect_New(Tail(block), have)
         ELSE <<Head(block).canon>>
                  \o Collect_New(Tail(block), have \cup {Head(block).canon})

\* Lines 201-208: a key is appended for each collected word.
RECURSIVE Append_Collected(_, _, _)
Append_Collected(h, c, canons) ==
    IF canons = <<>> THEN h
    ELSE Append_Collected(Append_Context(h, c, Head(canons)), c,
                          Tail(canons))

\* Lines 211-238: the variables of the block's words are set in order, up
\* to the first word whose key is hidden.  Gives the heap and the error.
RECURSIVE Set_Collected(_, _, _)
Set_Collected(h, c, block) ==
    IF block = <<>> THEN [h |-> h, error |-> "none"]
    ELSE LET i == Find_Canon_In_Context(h, c, Head(block).canon)
         IN  IF Is_Param_Hidden(CTX_KEYS(h, c)[i])
             THEN [h |-> h, error |-> "hidden"]
             ELSE Set_Collected(
                      [h EXCEPT !.contexts[c].vars[i] = Head(block).val],
                      c, Tail(block))

\* Append_To_Context lines 126-245.  arg is a word (its canon), a block (a
\* sequence of a word, or of another value as canon 0, each with the value
\* after it) or something else.  Gives the heap and the error.
Append_To_Context(h, c, arg, fresh) ==
    IF arg.type = "word"
    THEN [h |-> IF Find_Canon_In_Context(h, c, arg.word) = 0
                THEN Append_Context(Expand_Context(h, c, 1, fresh), c,
                                    arg.word)
                ELSE h,
          error |-> "none"]
    ELSE IF arg.type # "block" THEN [h |-> h, error |-> "invalid"]
    ELSE IF \E n \in 1..Len(arg.block) : arg.block[n].canon = 0
    THEN [h |-> h, error |-> "invalid"]
    ELSE LET have == {VAL_KEY_CANON(CTX_KEYS(h, c)[n]) :
                          n \in 1..Len(CTX_KEYS(h, c))}
             new == Collect_New(arg.block, have)
         IN  Set_Collected(
                 Append_Collected(Expand_Context(h, c, Len(new), fresh),
                                  c, new),
                 c, arg.block)

ContextHeap == [contexts |-> contexts, keylists |-> keylists]

\* What the last operation on contexts was, on which contexts, with what
\* result, and the contexts and keylists before it.
ContextEvent(op, a, b, res, error) ==
    [op |-> op, a |-> a, b |-> b, result |-> res, error |-> error,
     before |-> ContextHeap]

ContextCommit(h, e) ==
    /\ contexts' = h.contexts
    /\ keylists' = h.keylists
    /\ ctx_event' = e
    /\ UNCHANGED beside_context

\* A node no keylist lives in.
FreshKeylist == CHOOSE k \in KeylistIds \cup {0} :
    /\ k # 0 => ~keylists[k].live
    /\ k = 0 => \A j \in KeylistIds : keylists[j].live

Copy_Context(original, copy) ==
    /\ contexts[original].live
    /\ ~contexts[copy].live
    /\ \A c \in 1..(copy - 1) : contexts[c].live
    /\ ContextCommit(Copy_Context_Core_Managed(ContextHeap, original, copy),
                     ContextEvent("copy", original, copy, 0, "none"))

Append_Fields(c, arg) ==
    /\ contexts[c].live
    /\ FreshKeylist # 0
    /\ CTX_LEN(ContextHeap, c) + Len(arg.block) < MaxKeys + 1
    /\ arg.type = "word" <=> arg.word # 0
    /\ arg.type = "block" <=> arg.block # <<>>
    /\ LET r == Append_To_Context(ContextHeap, c, arg, FreshKeylist)
       IN  ContextCommit(r.h, ContextEvent("append", c, c, 0, r.error))

Compare(a, b, mode) ==
    /\ contexts[a].live
    /\ contexts[b].live
    /\ ContextCommit(ContextHeap,
                     ContextEvent("compare", a, b,
                                  CT_Context(ContextHeap, a, b, mode),
                                  "none"))

\* The blocks given to Append_To_Context.
RECURSIVE SeqsUpTo(_, _)
SeqsUpTo(S, n) ==
    IF n = 0 THEN {<<>>}
    ELSE LET shorter == SeqsUpTo(S, n - 1)
         IN  shorter \cup {Append(q, x) : q \in shorter, x \in S}

AppendArgs ==
    [type : {"word"}, word : Symbols, block : {<<>>}]
        \cup [type : {"other"}, word : {0}, block : {<<>>}]
        \cup [type : {"block"}, word : {0},
              block : SeqsUpTo([canon : {0} \cup Symbols, val : {MaxVal}],
                               MaxBlock) \ {<<>>}]

ContextNext ==
    \/ \E original \in CtxIds, copy \in CtxIds : Copy_Context(original, copy)
    \/ \E c \in CtxIds, arg \in AppendArgs : Append_Fields(c, arg)

EqualNext ==
    \E a \in CtxIds, b \in CtxIds, mode \in {-1, 0, 1} : Compare(a, b, mode)

\* The contexts while another part of the program is looked at: none made.
ContextParked ==
    /\ contexts = [c \in CtxIds |-> NoContext]
    /\ keylists = [k \in KeylistIds |-> NoKeylist]
    /\ ctx_event = [op |-> "none", a |-> 0, b |-> 0, result |-> 0,
                    error |-> "none",
                    before |-> [contexts |-> [c \in CtxIds |-> NoContext],
                                keylists |->
                                    [k \in KeylistIds |-> NoKeylist]]]

(***************************************************************************)
(* Typesets (REBTYPE(Typeset) of %t-typeset.c)                             *)
(*                                                                         *)
(* The bits of a typeset are a number of MaxKind binary digits, one for    *)
(* each kind of value, where the program has 64.  A cell is its type, its  *)
(* typeset bits and the kind a datatype stands for.                        *)
(***************************************************************************)

MaxKind == 4          \* REB_MAX: kinds of values, and bits of a typeset

REB_INTEGER == 1      \* the kinds are numbered in an order of their own
REB_DECIMAL == 2
REB_DATATYPE == 3

TypesetBits == 0..(2^MaxKind - 1)

FLAGIT_KIND(kind) == 2^kind
TYPE_CHECK(bits, kind) == (bits \div 2^kind) % 2 = 1

\* One binary digit of |, & and ^.
Bit_Of(verb, x, y) ==
    CASE verb = "union" -> IF x + y > 0 THEN 1 ELSE 0
      [] verb = "intersect" -> x * y
      [] verb = "difference" -> (x + y) % 2

\* |=, &= and ^= on the n low digits of two typeset bits.
RECURSIVE Bitwise(_, _, _, _)
Bitwise(verb, x, y, n) ==
    IF n = 0 THEN 0
    ELSE Bit_Of(verb, x % 2, y % 2)
             + 2 * Bitwise(verb, x \div 2, y \div 2, n - 1)

Typeset_Cell(bits) == [type |-> "typeset", bits |-> bits, kind |-> 0]
Datatype_Cell(kind) == [type |-> "datatype", bits |-> 0, kind |-> kind]
Other_Cell == [type |-> "integer", bits |-> 0, kind |-> 0]
No_Cell == [type |-> "none", bits |-> 0, kind |-> 0]

\* REBTYPE(Typeset) lines 2006-2050 on the typeset bits of val.  Gives the
\* bits of val after the call, what is returned and the failure.
REBTYPE_Typeset_Mutant(val, arg, verb) ==
    LET Returns(bits, out) == [val |-> bits, out |-> out, error |-> "none"]
        Fails(error) == [val |-> val, out |-> No_Cell, error |-> error]
    IN  IF verb = "find"
        THEN IF arg.type # "datatype" THEN Fails("invalid")
             ELSE IF TYPE_CHECK(val, arg.kind)
                  THEN Returns(val, [No_Cell EXCEPT !.type = "bar"])
                  ELSE Returns(val, [No_Cell EXCEPT !.type = "null"])
        ELSE IF verb \in {"intersect", "union", "difference"}
        THEN IF arg.type \notin {"datatype", "typeset"}
             THEN Fails("invalid")
             ELSE LET arg_bits == IF arg.type = "datatype"
                                  THEN FLAGIT_KIND(REB_DATATYPE)
                                  ELSE arg.bits
                      bits == IF verb = "difference"
                              THEN Bitwise("intersect", val,
                                           (2^MaxKind - 1) - arg_bits,
                                           MaxKind)
                              ELSE Bitwise(verb, val, arg_bits, MaxKind)
                  IN  Returns(bits, Typeset_Cell(bits))
        ELSE IF verb = "complement"
        THEN Returns((2^MaxKind - 1) - val,
                     Typeset_Cell((2^MaxKind - 1) - val))
        ELSE Fails("illegal_action")
REBTYPE_Typeset(val, arg, verb) ==
    LET Returns(bits, out) == [val |-> bits, out |-> out, error |-> "none"]
        Fails(error) == [val |-> val, out |-> No_Cell, error |-> error]
    IN  IF verb = "find"
        THEN IF arg.type # "datatype" THEN Fails("invalid")
             ELSE IF TYPE_CHECK(val, arg.kind)
                  THEN Returns(val, [No_Cell EXCEPT !.type = "bar"])
                  ELSE Returns(val, [No_Cell EXCEPT !.type = "null"])
        ELSE IF verb \in {"intersect", "union", "difference"}
        THEN IF arg.type \notin {"datatype", "typeset"}
             THEN Fails("invalid")
             ELSE LET arg_bits == IF arg.type = "datatype"
                                  THEN FLAGIT_KIND(REB_DATATYPE)
                                  ELSE arg.bits
                      bits == Bitwise(verb, val, arg_bits, MaxKind)
                  IN  Returns(bits, Typeset_Cell(bits))
        ELSE IF verb = "complement"
        THEN Returns((2^MaxKind - 1) - val,
                     Typeset_Cell((2^MaxKind - 1) - val))
        ELSE Fails("illegal_action")

\* The second argument: a typeset, a datatype, something else, or none for
\* a verb that takes one argument.
TypesetArgs(verb) ==
    IF verb \in {"find", "intersect", "union", "difference"}
    THEN {Typeset_Cell(bits) : bits \in TypesetBits}
             \cup {Datatype_Cell(kind) : kind \in 1..(MaxKind - 1)}
             \cup {Other_Cell}
    ELSE {No_Cell}

\* A verb is applied to the typeset.
Typeset_Action(verb, arg) ==
    /\ LET r == REBTYPE_Typeset(ts_val, arg, verb)
       IN  /\ ts_val' = r.val
           /\ ts_event' = [verb |-> verb, val |-> ts_val, arg |-> arg,
                           out |-> r.out, error |-> r.error]
    /\ UNCHANGED beside_typeset

TypesetNext ==
    \E verb \in {"find", "intersect", "union", "difference", "complement",
                 "append"} :
        \E arg \in TypesetArgs(verb) : Typeset_Action(verb, arg)

\* The typeset while another part of the program is looked at.
TypesetParked ==
    /\ ts_val = 0
    /\ ts_event = [verb |-> "none", val |-> 0, arg |-> No_Cell,
                   out |-> No_Cell, error |-> "none"]

(***************************************************************************)
(* The frame stack (%c-value.c)                                            *)
(*                                                                         *)
(* A frame is the action it runs: PG_Dummy_Action ("dummy"), a native or   *)
(* another action, and the context the second cell of the action's details *)
(* holds: that of a native is the module the native was made in.           *)
(***************************************************************************)

MaxFrames == 4        \* frames on the stack, FS_BOTTOM counted

\* What VAL_CONTEXT gives for the second cell of the details of an action
\* that is not a native: any context, or no context at all.
AnyContext == {"user", "lib", "module", "garbage"}

FramesPushed ==
    [phase : {"dummy"}, context : {"garbage"}]
        \cup [phase : {"native"}, context : {"lib", "module"}]
        \cup [phase : {"action"}, context : {"garbage"}]

\* Get_Context_From_Stack lines 509-554 from frame f down: the contexts it
\* can return, each with the frames it went over.
RECURSIVE Get_Context_From(_, _, _, _)
Get_Context_From(frames, f, steps, debug) ==
    IF f = 1
    THEN {[context |-> "user", steps |-> steps, warned |-> FALSE]}
    ELSE IF frames[f].phase = "dummy"
    THEN Get_Context_From(frames, f - 1, steps + 1, debug)
    ELSE IF debug /\ frames[f].phase # "native"
    THEN {[context |-> "lib", steps |-> steps, warned |-> TRUE]}
    ELSE IF frames[f].phase = "native"
    THEN {[context |-> frames[f].context, steps |-> steps,
           warned |-> FALSE]}
    ELSE {[context |-> c, steps |-> steps, warned |-> FALSE] :
              c \in AnyContext}

\* Get_Context_From_Stack lines 509-554: the walk starts at FS_TOP.
Get_Context_From_Stack_Mutant(frames, debug) ==
    Get_Context_From(frames, 1, 0, debug)
Get_Context_From_Stack(frames, debug) ==
    Get_Context_From(frames, Len(frames), 0, debug)

FrameCommit(frames, e) ==
    /\ fs_frames' = frames
    /\ fs_event' = e
    /\ UNCHANGED beside_frame

NoLookup == [op |-> "none", context |-> "none", steps |-> 0,
             warned |-> FALSE]

\* Startup_Frame_Stack lines 397-461: one frame that runs PG_Dummy_Action
\* is pushed, and is FS_TOP and FS_BOTTOM.
Startup_Frame_Stack ==
    /\ fs_frames = <<>>
    /\ FrameCommit(<<[phase |-> "dummy", context |-> "garbage"]>>,
                   [NoLookup EXCEPT !.op = "startup"])

\* A frame is pushed.
Push_Frame(frame) ==
    /\ fs_frames # <<>>
    /\ Len(fs_frames) < MaxFrames
    /\ FrameCommit(Append(fs_frames, frame), [NoLookup EXCEPT !.op = "push"])

\* FS_TOP is dropped.
Drop_Frame ==
    /\ Len(fs_frames) > 1
    /\ FrameCommit(SubSeq(fs_frames, 1, Len(fs_frames) - 1),
                   [NoLookup EXCEPT !.op = "drop"])

\* Get_Context_From_Stack is called.
Lookup_Context ==
    /\ fs_frames # <<>>
    /\ \E r \in Get_Context_From_Stack(fs_frames, debug_build) :
           FrameCommit(fs_frames,
                       [op |-> "lookup", context |-> r.context,
                        steps |-> r.steps, warned |-> r.warned])

FrameNext ==
    \/ Startup_Frame_Stack
    \/ \E frame \in FramesPushed : Push_Frame(frame)
    \/ Drop_Frame
    \/ Lookup_Context

\* The frame stack while another part of the program is looked at.
FrameParked ==
    /\ fs_frames = <<>>
    /\ fs_event = NoLookup

(***************************************************************************)
(* SAVE (%mezz-save.r)                                                     *)
(*                                                                         *)
(* Text and binary data are sequences of byte values.  A header is the     *)
(* fields SAVE looks at: OPTIONS (a block or not, with COMPRESS in it or   *)
(* not), LENGTH and CHECKSUM.  A field is absent ("none"), a LOGIC! or an  *)
(* INTEGER!.                                                               *)
(***************************************************************************)

MaxValues == 2        \* values in the block that is saved
MaxDigit == 1         \* the values saved are the integers 0..MaxDigit

Field(type, n) == [type |-> type, n |-> n]
NoField == Field("none", 0)
TrueField == Field("logic", 1)

NoHeader == [present |-> FALSE, has_options |-> FALSE, compress |-> FALSE,
             length |-> NoField, checksum |-> NoField]

\* MOLD/ONLY of a block of integers below ten: the digits, a space between.
RECURSIVE Mold_Only(_)
Mold_Only(value) ==
    IF value = <<>> THEN <<>>
    ELSE IF Len(value) = 1 THEN <<48 + value[1]>>
    ELSE <<48 + value[1], 32>> \o Mold_Only(Tail(value))

RECURSIVE Sum_Bytes(_)
Sum_Bytes(data) ==
    IF data = <<>> THEN 0 ELSE (data[1] + Sum_Bytes(Tail(data))) % 256

\* CHECKSUM/SECURE of line 128, as one number that depends on every byte.
Checksum_Secure(data) == Sum_Bytes(data)

\* GZIP of line 133: the ten bytes of the gzip header, the data as one
\* stored block (the block header, LEN and NLEN, the bytes), then four bytes
\* for the CRC and four for the size.
Gzip(data) ==
    <<31, 139, 8, 0, 0, 0, 0, 0, 0, 255>>
        \o <<1, Len(data) % 256, Len(data) \div 256,
             255 - (Len(data) % 256), 255 - (Len(data) \div 256)>>
        \o data
        \o <<Sum_Bytes(data), 0, 0, 0>>
        \o <<Len(data) % 256, Len(data) \div 256, 0, 0>>

\* The character of a base-64 digit.
Base64_Char(d) ==
    IF d < 26 THEN 65 + d
    ELSE IF d < 52 THEN 97 + (d - 26)
    ELSE IF d < 62 THEN 48 + (d - 52)
    ELSE IF d = 62 THEN 43 ELSE 47

\* Three bytes give four base-64 digits; one or two bytes at the end are
\* padded with "=".
RECURSIVE Enbase64(_)
Enbase64(data) ==
    IF data = <<>> THEN <<>>
    ELSE IF Len(data) = 1
    THEN <<Base64_Char(data[1] \div 4), Base64_Char((data[1] % 4) * 16),
           61, 61>>
    ELSE IF Len(data) = 2
    THEN <<Base64_Char(data[1] \div 4),
           Base64_Char((data[1] % 4) * 16 + data[2] \div 16),
           Base64_Char((data[2] % 16) * 4), 61>>
    ELSE <<Base64_Char(data[1] \div 4),
           Base64_Char((data[1] % 4) * 16 + data[2] \div 16),
           Base64_Char((data[2] % 16) * 4 + data[3] \div 64),
           Base64_Char(data[3] % 64)>>
             \o Enbase64(SubSeq(data, 4, Len(data)))

\* mold64 lines 18-27: MOLD of a binary with the binary base set to 64, and
\* the base set back: 64#{...}
mold64(data) == <<54, 52, 35, 123>> \o Enbase64(data) \o <<125>>

\* ENSURE [INTEGER! BLANK!] TRY of line 113: the value when it is an integer
\* or is not there, an error otherwise.
Ensure_Integer_Or_Blank(field) == field.type \in {"integer", "none"}

\* Lines 88-100: the COMPRESS option of the header is made to match the
\* /COMPRESS refinement.
Match_Compress(hdr, method) ==
    IF method \in {"blank", "false"}
    THEN [hdr EXCEPT !.compress = FALSE]
    ELSE [hdr EXCEPT !.has_options = TRUE, !.compress = TRUE]

\* Lines 125-151, CASE/ALL: every branch whose condition holds runs, in
\* this order.
Save_Body(hdr, text, compress, method, length) ==
    LET h1 == IF hdr.checksum.type # "none"
              THEN [hdr EXCEPT !.checksum =
                        Field("integer", Checksum_Secure(text))]
              ELSE hdr
        d2 == IF compress THEN Gzip(text) ELSE text
        d3 == IF method = "script" THEN mold64(d2) ELSE d2
    IN  [header |-> IF length
                    THEN [h1 EXCEPT !.length = Field("integer", Len(d3))]
                    ELSE h1,
         body |-> d3]

SaveFailed == [outcome |-> "error", header |-> NoHeader, body |-> <<>>]

\* save lines 29-173.
Save_Result(where, value, header_data, length, compress, method) ==
    LET any_hdr == IF (length \/ method \in {"true", "script"})
                      /\ ~header_data.present
                   THEN [NoHeader EXCEPT !.present = TRUE]
                   ELSE header_data
        h1 == IF compress THEN Match_Compress(any_hdr, method) ELSE any_hdr
        h2 == [h1 EXCEPT !.length = IF length THEN TrueField ELSE @]
        text == Mold_Only(value) \o <<10>>
    IN  IF where = "codec" /\ ~header_data.present
        THEN [outcome |-> "codec", header |-> NoHeader, body |-> <<>>]
        ELSE IF ~any_hdr.present
        THEN [outcome |-> "ok"]
                 @@ Save_Body(NoHeader, text, compress, method, FALSE)
        ELSE IF ~Ensure_Integer_Or_Blank(h2.length)
        THEN SaveFailed
        ELSE [outcome |-> "ok"]
                 @@ Save_Body(h2, text, h2.compress,
                              IF h2.compress THEN method ELSE "blank",
                              h2.length.type = "integer")

\* The headers a caller gives: none, an empty one, one with a LENGTH that
\* is an integer or TRUE, one with a CHECKSUM, one with the COMPRESS option.
HeadersGiven ==
    {NoHeader, [NoHeader EXCEPT !.present = TRUE]}
        \cup {[NoHeader EXCEPT !.present = TRUE, !.length = f] :
                  f \in {Field("integer", 0), TrueField}}
        \cup {[NoHeader EXCEPT !.present = TRUE, !.checksum = TrueField],
              [NoHeader EXCEPT !.present = TRUE, !.has_options = TRUE,
                               !.compress = TRUE]}

ValuesSaved ==
    UNION {[1..n -> 0..MaxDigit] : n \in 0..MaxValues}

\* The /COMPRESS refinement and its METHOD; METHOD is blank without it.
CompressGiven ==
    {[compress |-> FALSE, method |-> "blank"]}
        \cup [compress : {TRUE}, method : {"true", "false", "script"}]

NoSave == [where |-> "none", value |-> <<>>, header_data |-> NoHeader,
           length |-> FALSE, compress |-> FALSE, method |-> "blank"]

save(where, value, header_data, length, c) ==
    /\ sv_out' = Save_Result(where, value, header_data, length,
                             c.compress, c.method)
    /\ sv_event' = [where |-> where, value |-> value,
                    header_data |-> header_data, length |-> length,
                    compress |-> c.compress, method |-> c.method]
    /\ UNCHANGED beside_save

SaveNext ==
    \E where \in {"blank", "codec"}, value \in ValuesSaved,
       header_data \in HeadersGiven, length \in BOOLEAN,
       c \in CompressGiven :
        save(where, value, header_data, length, c)

\* SAVE while another part of the program is looked at.
SaveParked ==
    /\ sv_out = SaveFailed
    /\ sv_event = NoSave

(***************************************************************************)
(* MONEY! (%t-money.c, %sys-value.h)                                       *)
(*                                                                         *)
(* A deci is kept as a whole number of hundredths, so that $10 is 1000.    *)
(* A cell is its type and its payload: the deci of a MONEY!, the number of *)
(* an INTEGER!, the hundredths of a DECIMAL!.                              *)
(***************************************************************************)

MaxMoney == 10        \* amounts and integers are between -MaxMoney and it

Cell(type, n) == [type |-> type, n |-> n]

\* Init_Money, sys-value.h lines 1239-1240 and following: a MONEY! cell
\* that holds the amount.
Init_Money(amount) == Cell("money", amount)

int_to_deci(n) == n * 100
decimal_to_deci(d) == d

Abs(n) == IF n < 0 THEN 0 - n ELSE n
Sign(n) == IF n < 0 THEN 0 - 1 ELSE 1

deci_add(a, b) == a + b
deci_subtract(a, b) == a - b
deci_multiply(a, b) == Sign(a) * Sign(b) * ((Abs(a) * Abs(b)) \div 100)
deci_divide(a, b) == Sign(a) * Sign(b) * ((Abs(a) * 100) \div Abs(b))
deci_mod(a, b) == Sign(a) * (Abs(a) % Abs(b))
deci_to_int(a) == Sign(a) * (Abs(a) \div 100)

\* Math_Arg_For_Money lines 154-170: the argument as a MONEY!, or no cell
\* when it is of another type.
Math_Arg_For_Money(arg) ==
    IF arg.type = "money" THEN arg
    ELSE IF arg.type = "integer" THEN Init_Money(int_to_deci(arg.n))
    ELSE IF arg.type = "decimal" THEN Init_Money(decimal_to_deci(arg.n))
    ELSE Cell("none", 0)

MoneyDone(out, error) == [out |-> out, error |-> error]

\* REBTYPE(Money) lines 176-291 without ROUND: the result of the arithmetic
\* verbs is given the header of a MONEY! at line 290.
REBTYPE_Money_Mutant(val, arg, verb) ==
    LET a == Math_Arg_For_Money(arg)
    IN  IF verb \in {"even?", "odd?"}
        THEN MoneyDone(Cell("logic",
                            IF (deci_to_int(val.n) % 2 = 0) = (verb = "even?")
                            THEN 1 ELSE 0), "none")
        ELSE IF verb = "negate" THEN MoneyDone(Init_Money(0 - val.n), "none")
        ELSE IF verb = "absolute"
        THEN MoneyDone(Init_Money(Abs(val.n)), "none")
        ELSE IF a.type = "none" THEN MoneyDone(Cell("none", 0), "math_args")
        ELSE IF verb = "add"
        THEN MoneyDone(Init_Money(deci_add(val.n, a.n)), "none")
        ELSE IF verb = "subtract"
        THEN MoneyDone(Init_Money(deci_subtract(val.n, a.n)), "none")
        ELSE IF verb = "multiply"
        THEN MoneyDone(Init_Money(deci_multiply(val.n, a.n)), "none")
        ELSE IF a.n = 0 THEN MoneyDone(Cell("none", 0), "zero_divide")
        ELSE IF verb = "divide"
        THEN MoneyDone(Cell("decimal", deci_divide(val.n, a.n)), "none")
        ELSE MoneyDone(Init_Money(deci_mod(val.n, a.n)), "none")
REBTYPE_Money(val, arg, verb) ==
    LET a == Math_Arg_For_Money(arg)
    IN  IF verb \in {"even?", "odd?"}
        THEN MoneyDone(Cell("logic",
                            IF (deci_to_int(val.n) % 2 = 0) = (verb = "even?")
                            THEN 1 ELSE 0), "none")
        ELSE IF verb = "negate" THEN MoneyDone(Init_Money(0 - val.n), "none")
        ELSE IF verb = "absolute"
        THEN MoneyDone(Init_Money(Abs(val.n)), "none")
        ELSE IF a.type = "none" THEN MoneyDone(Cell("none", 0), "math_args")
        ELSE IF verb = "add"
        THEN MoneyDone(Init_Money(deci_add(val.n, a.n)), "none")
        ELSE IF verb = "subtract"
        THEN MoneyDone(Init_Money(deci_subtract(val.n, a.n)), "none")
        ELSE IF verb = "multiply"
        THEN MoneyDone(Init_Money(deci_multiply(val.n, a.n)), "none")
        ELSE IF a.n = 0 THEN MoneyDone(Cell("none", 0), "zero_divide")
        ELSE IF verb = "divide"
        THEN MoneyDone(Init_Money(deci_divide(val.n, a.n)), "none")
        ELSE MoneyDone(Init_Money(deci_mod(val.n, a.n)), "none")

MoneyVerbs == {"add", "subtract", "multiply", "divide", "remainder",
               "negate", "absolute", "even?", "odd?"}

\* Whole amounts, and a half.
MoneyValues ==
    {Init_Money(int_to_deci(n)) :
         n \in {0 - MaxMoney, 0 - 1, 0, 1, 2, MaxMoney}}
        \cup {Init_Money(50)}

MoneyArgs ==
    {Init_Money(int_to_deci(n)) : n \in {0, 1, 2, MaxMoney}}
        \cup {Cell("integer", n) : n \in {0, 2, MaxMoney}}
        \cup {Cell("decimal", 50), Cell("text", 0)}

NoMoney == [verb |-> "none", val |-> Cell("none", 0),
            arg |-> Cell("none", 0)]

Money_Action(val, arg, verb) ==
    /\ \E r \in {REBTYPE_Money(val, arg, verb)} :
           /\ money_out' = r
           /\ money_event' = [verb |-> verb, val |-> val, arg |-> arg]
    /\ UNCHANGED beside_money

MoneyNext ==
    \E val \in MoneyValues, arg \in MoneyArgs, verb \in MoneyVerbs :
        Money_Action(val, arg, verb)

\* MONEY! while another part of the program is looked at.
MoneyParked ==
    /\ money_out = MoneyDone(Cell("none", 0), "none")
    /\ money_event = NoMoney

(***************************************************************************)
(* Pairings (%m-pools.c)                                                   *)
(*                                                                         *)
(* The pool table has a pool for pairings after SER_POOL only when the     *)
(* build defines UNUSUAL_REBVAL_SIZE (lines 213-215); in any other build   *)
(* PAR_POOL is SER_POOL.  A free list holds the place of each node inside  *)
(* the segments of its own pool; the address of a node is that place after *)
(* the base of the pool.                                                   *)
(***************************************************************************)

PAR_POOL(unusual) == IF unusual THEN SER_POOL + 1 ELSE SER_POOL

PairPools == {SER_POOL, SER_POOL + 1}

Pool_Base(pool_num) == (pool_num - SER_POOL) * MaxSegs * PoolUnits

NoPairing == [op |-> "none", node |-> NullNode, pool |-> 0]

PairCommit(pools, pairings, e) ==
    /\ pr_pools' = pools
    /\ pr_pairings' = pairings
    /\ pr_event' = e
    /\ UNCHANGED unusual_rebval_size
    /\ UNCHANGED beside_pairing

\* Alloc_Pairing lines 556-574: a node of PAR_POOL, not managed.
Alloc_Pairing(alloc_ok) ==
    /\ pr_event.op # "panicked"
    /\ LET pool_num == PAR_POOL(unusual_rebval_size)
       IN  /\ pr_pools[pool_num].first = <<>> =>
                  pr_pools[pool_num].segs < MaxSegs
           /\ pr_pools[pool_num].first # <<>> => alloc_ok
           /\ \E r \in {Make_Node(pr_pools[pool_num], alloc_ok)} :
                  IF r.panic
                  THEN PairCommit(pr_pools, pr_pairings,
                                  [NoPairing EXCEPT !.op = "panicked"])
                  ELSE PairCommit(
                           [pr_pools EXCEPT ![pool_num] = r.pool],
                           pr_pairings \cup
                               {[node |-> Pool_Base(pool_num) + r.node,
                                 pool |-> pool_num, managed |-> FALSE]},
                           [op |-> "Alloc_Pairing",
                            node |-> Pool_Base(pool_num) + r.node,
                            pool |-> pool_num])

\* Manage_Pairing lines 583-585.
Manage_Pairing(paired) ==
    /\ pr_event.op # "panicked"
    /\ ~paired.managed
    /\ PairCommit(pr_pools,
                  (pr_pairings \ {paired})
                      \cup {[paired EXCEPT !.managed = TRUE]},
                  [op |-> "Manage_Pairing", node |-> paired.node,
                   pool |-> paired.pool])

\* Unmanage_Pairing lines 597-600.
Unmanage_Pairing(paired) ==
    /\ pr_event.op # "panicked"
    /\ paired.managed
    /\ PairCommit(pr_pools,
                  (pr_pairings \ {paired})
                      \cup {[paired EXCEPT !.managed = FALSE]},
                  [op |-> "Unmanage_Pairing", node |-> paired.node,
                   pool |-> paired.pool])

\* Free_Pairing lines 606-616: Free_Node(SER_POOL, s).
Free_Pairing(paired) ==
    /\ pr_event.op # "panicked"
    /\ ~paired.managed
    /\ PairCommit([pr_pools EXCEPT ![SER_POOL] =
                       Free_Node(@, paired.node - Pool_Base(SER_POOL))],
                  pr_pairings \ {paired},
                  [op |-> "Free_Pairing", node |-> paired.node,
                   pool |-> SER_POOL])

PairingNext ==
    \/ \E alloc_ok \in BOOLEAN : Alloc_Pairing(alloc_ok)
    \/ \E paired \in pr_pairings : Manage_Pairing(paired)
    \/ \E paired \in pr_pairings : Unmanage_Pairing(paired)
    \/ \E paired \in pr_pairings : Free_Pairing(paired)

\* The pairings while another part of the program is looked at.
PairingParked ==
    /\ unusual_rebval_size = FALSE
    /\ pr_pools = [p \in PairPools |-> EmptyPool]
    /\ pr_pairings = {}
    /\ pr_event = NoPairing

(***************************************************************************)
(* Memory accounting (%m-pools.c): Alloc_Mem and Free_Mem                  *)
(***************************************************************************)

MaxBlocks == 3        \* allocations outstanding at once
MaxSize == 2          \* bytes asked of one Alloc_Mem
MaxUsage == 8         \* PG_Mem_Usage up to which Alloc_Mem is still called

RECURSIVE Sum_Sizes(_)
Sum_Sizes(blocks) ==
    IF blocks = <<>> THEN 0 ELSE blocks[1] + Sum_Sizes(Tail(blocks))

Remove_At(blocks, i) ==
    SubSeq(blocks, 1, i - 1) \o SubSeq(blocks, i + 1, Len(blocks))

NoMem == [op |-> "none", size |-> 0, outcome |-> "none"]

MemCommit(usage, blocks, e) ==
    /\ PG_Mem_Usage' = usage
    /\ mem_blocks' = blocks
    /\ mem_event' = e
    /\ UNCHANGED PG_Mem_Limit
    /\ UNCHANGED beside_memory

\* Alloc_Mem lines 98-130: the size is counted, the ceiling is checked and
\* the security policy may refuse, then malloc() gives the block or NULL.
Alloc_Mem(size, policy_ok, malloc_ok) ==
    /\ mem_event.op # "Shutdown_Pools"
    /\ Len(mem_blocks) < MaxBlocks
    /\ PG_Mem_Usage < MaxUsage
    /\ \E usage \in {PG_Mem_Usage + size} :
           IF PG_Mem_Limit # 0 /\ usage > PG_Mem_Limit /\ ~policy_ok
           THEN MemCommit(usage, mem_blocks,
                          [op |-> "Alloc_Mem", size |-> size,
                           outcome |-> "refused"])
           ELSE IF ~malloc_ok
           THEN MemCommit(usage, mem_blocks,
                          [op |-> "Alloc_Mem", size |-> size,
                           outcome |-> "null"])
           ELSE MemCommit(usage, Append(mem_blocks, size),
                          [op |-> "Alloc_Mem", size |-> size,
                           outcome |-> "ok"])

\* Free_Mem lines 148-160 on the i-th block outstanding.
Free_Mem(i) ==
    /\ mem_event.op # "Shutdown_Pools"
    /\ MemCommit(PG_Mem_Usage - mem_blocks[i], Remove_At(mem_blocks, i),
                 [op |-> "Free_Mem", size |-> mem_blocks[i],
                  outcome |-> "ok"])

\* Shutdown_Pools lines 348-387: what is still allocated is freed with
\* FREE_N, and the usage left is reported when it is not zero.
Shutdown_Pools_Mem ==
    /\ mem_event.op # "Shutdown_Pools"
    /\ \E usage \in {PG_Mem_Usage - Sum_Sizes(mem_blocks)} :
           MemCommit(usage, <<>>,
                     [op |-> "Shutdown_Pools", size |-> usage,
                      outcome |-> IF usage # 0 THEN "imbalance" ELSE "ok"])

MemoryNext ==
    \/ \E size \in 1..MaxSize, policy_ok \in BOOLEAN, malloc_ok \in BOOLEAN :
           Alloc_Mem(size, policy_ok, malloc_ok)
    \/ \E i \in 1..Len(mem_blocks) : Free_Mem(i)
    \/ Shutdown_Pools_Mem

\* The accounting while another part of the program is looked at.
MemoryParked ==
    /\ PG_Mem_Usage = 0
    /\ PG_Mem_Limit = 0
    /\ mem_blocks = <<>>
    /\ mem_event = NoMem

(***************************************************************************)
(* Ctrl-C handling                                                         *)
(***************************************************************************)

\* Disable_Ctrl_C(): installs the ignoring handler, clears the flag.
Disable_Ctrl_C_Mutant ==
    ctrl_c_enabled' = ctrl_c_enabled

Disable_Ctrl_C ==
    ctrl_c_enabled' = FALSE

\* Enable_Ctrl_C(): installs the halting handler, sets the flag.
Enable_Ctrl_C_Mutant ==
    ctrl_c_enabled' = ctrl_c_enabled

Enable_Ctrl_C ==
    ctrl_c_enabled' = TRUE

\* A failed assert() aborts the process (checked build).
Abort ==
    /\ pc' = "assert_failed"
    /\ UNCHANGED <<ctrl_c_enabled, code, code_int, result, no_recover,
                   PG_Eval, PG_Dispatcher, Trace_Level, Trace_Depth,
                   saved_eval_hook, saved_dispatcher_hook,
                   Save_Trace_Level, Save_Trace_Depth,
                   exit_status, returned, extensions_shut, devices_quit,
                   handed, n_calls, driver_outcome, code_outcome,
                   fails_since_group>>

(***************************************************************************)
(* main(): startup                                                         *)
(***************************************************************************)

\* main() line 351: Disable_Ctrl_C() before anything else.
Main_Disable_Ctrl_C ==
    /\ UNCHANGED beside_host
    /\ pc = "main"
    /\ IF ~ctrl_c_enabled
       THEN Abort
       ELSE /\ Disable_Ctrl_C
            /\ pc' = "startup"
            /\ UNCHANGED <<code, code_int, result, no_recover,
                           PG_Eval, PG_Dispatcher, Trace_Level, Trace_Depth,
                           saved_eval_hook, saved_dispatcher_hook,
                           Save_Trace_Level, Save_Trace_Depth,
                           exit_status, returned, extensions_shut,
                           devices_quit, handed, n_calls, driver_outcome,
                           code_outcome, fails_since_group>>

\* main() lines 353-536: rebStartup(), loading of the console, first
\* instruction (blank) and result (the startup arguments), saving of the
\* hooks and of the trace level.
Main_Startup ==
    /\ UNCHANGED beside_host
    /\ pc = "startup"
    /\ code' = "blank"
    /\ result' = "args"
    /\ saved_eval_hook' = PG_Eval
    /\ saved_dispatcher_hook' = PG_Dispatcher
    /\ Save_Trace_Level' = Trace_Level
    /\ Save_Trace_Depth' = Trace_Depth
    /\ no_recover' = FALSE
    /\ pc' = "loop"
    /\ UNCHANGED <<ctrl_c_enabled, code_int, PG_Eval, PG_Dispatcher,
                   Trace_Level, Trace_Depth, exit_status, returned,
                   extensions_shut, devices_quit, handed, n_calls,
                   driver_outcome, code_outcome, fails_since_group>>

(***************************************************************************)
(* main(): the loop                                                        *)
(***************************************************************************)

\* main() lines 549-555: HOST-CONSOLE is applied to the prior code and the
\* prior result, inside lib/entrap.
Invoke_Host_Console ==
    /\ UNCHANGED beside_host
    /\ pc = "loop"
    /\ n_calls < MaxDriverCalls
    /\ handed' = <<code, result>>
    /\ n_calls' = n_calls + 1
    /\ pc' = "host_console"
    /\ UNCHANGED <<ctrl_c_enabled, code, code_int, result, no_recover,
                   PG_Eval, PG_Dispatcher, Trace_Level, Trace_Depth,
                   saved_eval_hook, saved_dispatcher_hook,
                   Save_Trace_Level, Save_Trace_Depth,
                   exit_status, returned, extensions_shut, devices_quit,
                   driver_outcome, code_outcome, fails_since_group>>

\* main() lines 560-578: the entrapped invocation gave an ERROR!.
Trap_Driver_Error_Mutant ==
    /\ code' = "host_console_error"
    /\ result' = "driver_error"
    /\ no_recover' = TRUE
    /\ pc' = "loop"

Trap_Driver_Error ==
    IF no_recover
    THEN /\ pc' = "panicked"       \* rebJumps("lib/PANIC", trapped)
         /\ UNCHANGED <<code, result, no_recover>>
    ELSE /\ code' = "host_console_error"
         /\ result' = "driver_error"
         /\ no_recover' = TRUE
         /\ pc' = "loop"           \* goto recover

\* main() lines 593-603: a GROUP! re-enables recovery and runs under the
\* saved hooks and trace level.
Restore_Hooks_Mutant_Recover(is_console_instruction) ==
    /\ no_recover' = FALSE
    /\ IF ~is_console_instruction
       THEN /\ PG_Eval' = saved_eval_hook
            /\ PG_Dispatcher' = saved_dispatcher_hook
            /\ Trace_Level' = Save_Trace_Level
            /\ Trace_Depth' = Save_Trace_Depth
       ELSE UNCHANGED <<PG_Eval, PG_Dispatcher, Trace_Level, Trace_Depth>>

Restore_Hooks(is_console_instruction) ==
    IF ~is_console_instruction
    THEN /\ no_recover' = FALSE
         /\ PG_Eval' = saved_eval_hook
         /\ PG_Dispatcher' = saved_dispatcher_hook
         /\ Trace_Level' = Save_Trace_Level
         /\ Trace_Depth' = Save_Trace_Depth
    ELSE UNCHANGED <<no_recover, PG_Eval, PG_Dispatcher,
                     Trace_Level, Trace_Depth>>

\* main() lines 557-610: what the loop does with what the invocation gave.
Host_Console_Returns(ret, n) ==
    /\ UNCHANGED beside_host
    /\ pc = "host_console"
    /\ ret # "integer" => n = 0
    /\ code_outcome' = "none"
    /\ IF ret = "error"
       THEN /\ Trap_Driver_Error
            /\ driver_outcome' = "fail"
            /\ fails_since_group' = fails_since_group + 1
            /\ UNCHANGED <<ctrl_c_enabled, code_int, PG_Eval, PG_Dispatcher,
                           Trace_Level, Trace_Depth, exit_status>>
       ELSE IF ret = "integer"
       THEN \* lines 580-584 and 630-632: break, unbox the exit status
            /\ code' = "integer"
            /\ code_int' = n
            /\ exit_status' = n
            /\ pc' = "shutdown_extensions"
            /\ driver_outcome' = "ok"
            /\ UNCHANGED <<ctrl_c_enabled, result, no_recover, PG_Eval,
                           PG_Dispatcher, Trace_Level, Trace_Depth,
                           fails_since_group>>
       ELSE \* lines 586-610: a BLOCK! or a GROUP! to execute
            /\ code' = ret
            /\ driver_outcome' = "ok"
            /\ fails_since_group' =
                   IF ret = "group" THEN 0 ELSE fails_since_group
            /\ Restore_Hooks(ret = "block")
            /\ IF ctrl_c_enabled
               THEN /\ pc' = "assert_failed"
                    /\ UNCHANGED ctrl_c_enabled
               ELSE /\ Enable_Ctrl_C
                    /\ pc' = "sandbox"
            /\ UNCHANGED <<code_int, result, exit_status>>
    /\ UNCHANGED <<saved_eval_hook, saved_dispatcher_hook,
                   Save_Trace_Level, Save_Trace_Depth,
                   returned, extensions_shut, devices_quit,
                   handed, n_calls>>

\* User code (a GROUP!) running in the sandbox may install or remove
\* evaluation hooks and change the trace level (main() lines 614-616: "If
\* the custom DO and APPLY hooks were changed by the user code").
User_Code_Changes_Hooks(e, d, tl, td) ==
    /\ UNCHANGED beside_host
    /\ pc = "sandbox"
    /\ code = "group"
    /\ <<e, d, tl, td>> # <<PG_Eval, PG_Dispatcher, Trace_Level, Trace_Depth>>
    /\ PG_Eval' = e
    /\ PG_Dispatcher' = d
    /\ Trace_Level' = tl
    /\ Trace_Depth' = td
    /\ UNCHANGED <<pc, ctrl_c_enabled, code, code_int, result, no_recover,
                   saved_eval_hook, saved_dispatcher_hook,
                   Save_Trace_Level, Save_Trace_Depth,
                   exit_status, returned, extensions_shut, devices_quit,
                   handed, n_calls, driver_outcome, code_outcome,
                   fails_since_group>>

\* Run_Sandboxed_Code(): null stays null, any other value comes back
\* wrapped in a block.
Run_Sandboxed_Code(o) ==
    IF o = "null" THEN "null" ELSE "block_of_value"

\* rebRescue(): gives what the dangerous function returned, or the ERROR!
\* of the failure it trapped.
rebRescue(o) ==
    IF o = "fail" THEN "error" ELSE Run_Sandboxed_Code(o)

\* main() lines 618-627: after a GROUP!, keep the hooks the user code left
\* and put the core ones back for the next HOST-CONSOLE invocation.
Save_And_Reset_Hooks_Mutant(is_console_instruction) ==
    IF ~is_console_instruction
    THEN /\ saved_eval_hook' = PG_Eval
         /\ saved_dispatcher_hook' = PG_Dispatcher
         /\ Save_Trace_Level' = Trace_Level
         /\ Save_Trace_Depth' = Trace_Depth
         /\ UNCHANGED <<PG_Eval, PG_Dispatcher, Trace_Level, Trace_Depth>>
    ELSE UNCHANGED <<saved_eval_hook, saved_dispatcher_hook,
                     Save_Trace_Level, Save_Trace_Depth,
                     PG_Eval, PG_Dispatcher, Trace_Level, Trace_Depth>>

Save_And_Reset_Hooks(is_console_instruction) ==
    IF ~is_console_instruction
    THEN /\ saved_eval_hook' = PG_Eval
         /\ saved_dispatcher_hook' = PG_Dispatcher
         /\ PG_Eval' = "core"
         /\ PG_Dispatcher' = "core"
         /\ Save_Trace_Level' = Trace_Level
         /\ Save_Trace_Depth' = Trace_Depth
         /\ Trace_Level' = 0
         /\ Trace_Depth' = 0
    ELSE UNCHANGED <<saved_eval_hook, saved_dispatcher_hook,
                     Save_Trace_Level, Save_Trace_Depth,
                     PG_Eval, PG_Dispatcher, Trace_Level, Trace_Depth>>

\* main() lines 611-628: the instruction has run (to completion or to a
\* failure); the loop goes round.
Sandbox_Returns_Mutant(o) ==
    /\ UNCHANGED beside_host
    /\ pc = "sandbox"
    /\ code_outcome' = IF o = "fail" THEN "fail" ELSE "ok"
    /\ IF o = "fail"
       THEN /\ pc' = "panicked"
            /\ UNCHANGED <<ctrl_c_enabled, result, PG_Eval, PG_Dispatcher,
                           Trace_Level, Trace_Depth, saved_eval_hook,
                           saved_dispatcher_hook, Save_Trace_Level,
                           Save_Trace_Depth>>
       ELSE /\ result' = rebRescue(o)
            /\ Disable_Ctrl_C
            /\ Save_And_Reset_Hooks(code = "block")
            /\ pc' = "loop"
    /\ UNCHANGED <<code, code_int, no_recover, exit_status, returned,
                   extensions_shut, devices_quit, handed, n_calls,
                   driver_outcome, fails_since_group>>

Sandbox_Returns(o) ==
    /\ UNCHANGED beside_host
    /\ pc = "sandbox"
    /\ code_outcome' = IF o = "fail" THEN "fail" ELSE "ok"
    /\ result' = rebRescue(o)
    /\ IF ~ctrl_c_enabled
       THEN /\ pc' = "assert_failed"
            /\ UNCHANGED <<ctrl_c_enabled, PG_Eval, PG_Dispatcher,
                           Trace_Level, Trace_Depth, saved_eval_hook,
                           saved_dispatcher_hook, Save_Trace_Level,
                           Save_Trace_Depth>>
       ELSE /\ Disable_Ctrl_C
            /\ Save_And_Reset_Hooks(code = "block")
            /\ pc' = "loop"
    /\ UNCHANGED <<code, code_int, no_recover, exit_status, returned,
                   extensions_shut, devices_quit, handed, n_calls,
                   driver_outcome, fails_since_group>>

(***************************************************************************)
(* main(): exit                                                            *)
(***************************************************************************)

\* main() lines 639-640: rebShutdownExtensions(extensions).
Shutdown_Extensions ==
    /\ UNCHANGED beside_host
    /\ pc = "shutdown_extensions"
    /\ extensions_shut' = TRUE
    /\ pc' = "quit_devices"
    /\ UNCHANGED <<ctrl_c_enabled, code, code_int, result, no_recover,
                   PG_Eval, PG_Dispatcher, Trace_Level, Trace_Depth,
                   saved_eval_hook, saved_dispatcher_hook,
                   Save_Trace_Level, Save_Trace_Depth,
                   exit_status, returned, devices_quit,
                   handed, n_calls, driver_outcome, code_outcome,
                   fails_since_group>>

\* main() line 642: OS_QUIT_DEVICES(0).
Quit_Devices ==
    /\ UNCHANGED beside_host
    /\ pc = "quit_devices"
    /\ devices_quit' = TRUE
    /\ pc' = "reb_shutdown"
    /\ UNCHANGED <<ctrl_c_enabled, code, code_int, result, no_recover,
                   PG_Eval, PG_Dispatcher, Trace_Level, Trace_Depth,
                   saved_eval_hook, saved_dispatcher_hook,
                   Save_Trace_Level, Save_Trace_Depth,
                   exit_status, returned, extensions_shut,
                   handed, n_calls, driver_outcome, code_outcome,
                   fails_since_group>>

\* main() lines 644-647: rebShutdown(clean); return exit_status.
Main_Return_Mutant ==
    /\ UNCHANGED beside_host
    /\ pc = "reb_shutdown"
    /\ returned' = 0
    /\ pc' = "exited"
    /\ UNCHANGED <<ctrl_c_enabled, code, code_int, result, no_recover,
                   PG_Eval, PG_Dispatcher, Trace_Level, Trace_Depth,
                   saved_eval_hook, saved_dispatcher_hook,
                   Save_Trace_Level, Save_Trace_Depth,
                   exit_status, extensions_shut, devices_quit,
                   handed, n_calls, driver_outcome, code_outcome,
                   fails_since_group>>

Main_Return ==
    /\ UNCHANGED beside_host
    /\ pc = "reb_shutdown"
    /\ returned' = exit_status
    /\ pc' = "exited"
    /\ UNCHANGED <<ctrl_c_enabled, code, code_int, result, no_recover,
                   PG_Eval, PG_Dispatcher, Trace_Level, Trace_Depth,
                   saved_eval_hook, saved_dispatcher_hook,
                   Save_Trace_Level, Save_Trace_Depth,
                   exit_status, extensions_shut, devices_quit,
                   handed, n_calls, driver_outcome, code_outcome,
                   fails_since_group>>

(***************************************************************************)
(* The host specification                                                  *)
(***************************************************************************)

\* State at process start: ctrl_c_enabled is initialised to true; the core
\* evaluator and dispatcher are the hooks and tracing is off.
HostInit ==
    /\ pc = "main"
    /\ ctrl_c_enabled = TRUE
    /\ code = "unset"
    /\ code_int = 0
    /\ result = "unset"
    /\ no_recover = FALSE
    /\ PG_Eval = "core"
    /\ PG_Dispatcher = "core"
    /\ Trace_Level = 0
    /\ Trace_Depth = 0
    /\ saved_eval_hook = "core"
    /\ saved_dispatcher_hook = "core"
    /\ Save_Trace_Level = 0
    /\ Save_Trace_Depth = 0
    /\ exit_status = 0
    /\ returned = NotReturned
    /\ extensions_shut = FALSE
    /\ devices_quit = FALSE
    /\ handed = <<"unset", "unset">>
    /\ n_calls = 0
    /\ driver_outcome = "none"
    /\ code_outcome = "none"
    /\ fails_since_group = 0
    /\ ExpandParked
    /\ PoolParked
    /\ StackParked
    /\ ContextParked
    /\ TypesetParked
    /\ FrameParked
    /\ SaveParked
    /\ MoneyParked
    /\ PairingParked
    /\ MemoryParked

HostNext ==
    \/ Main_Disable_Ctrl_C
    \/ Main_Startup
    \/ Invoke_Host_Console
    \/ \E ret \in DriverReturns, n \in ExitCodes : Host_Console_Returns(ret, n)
    \/ \E e \in Hooks, d \in Hooks, tl \in TraceLevels, td \in TraceLevels :
           User_Code_Changes_Hooks(e, d, tl, td)
    \/ \E o \in SandboxOutcomes : Sandbox_Returns(o)
    \/ Shutdown_Extensions
    \/ Quit_Devices
    \/ Main_Return

HostSpec == HostInit /\ [][HostNext]_vars

\* The host variables while series expansion is what is looked at: main()
\* has not started.
HostParked ==
    /\ pc = "main"
    /\ ctrl_c_enabled = TRUE
    /\ code = "unset"
    /\ code_int = 0
    /\ result = "unset"
    /\ no_recover = FALSE
    /\ PG_Eval = "core"
    /\ PG_Dispatcher = "core"
    /\ Trace_Level = 0
    /\ Trace_Depth = 0
    /\ saved_eval_hook = "core"
    /\ saved_dispatcher_hook = "core"
    /\ Save_Trace_Level = 0
    /\ Save_Trace_Depth = 0
    /\ exit_status = 0
    /\ returned = NotReturned
    /\ extensions_shut = FALSE
    /\ devices_quit = FALSE
    /\ handed = <<"unset", "unset">>
    /\ n_calls = 0
    /\ driver_outcome = "none"
    /\ code_outcome = "none"
    /\ fails_since_group = 0

ExpandInit ==
    /\ ser \in InitialSeries
    /\ pre = ser
    /\ call = NoCall
    /\ Prior_Expand \in InitialPriorExpand
    /\ next_alloc = 2
    /\ freed = {}
    /\ debug_build \in BOOLEAN
    /\ HostParked
    /\ PoolParked
    /\ StackParked
    /\ ContextParked
    /\ TypesetParked
    /\ FrameParked
    /\ SaveParked
    /\ MoneyParked
    /\ PairingParked
    /\ MemoryParked

ExpandSpec == ExpandInit /\ [][ExpandNext]_vars

\* Decay_Series lines 1035-1039 on the series under expansion: it leaves
\* slots 1.. of the recently expanded list, and its data is freed.
Decay_Expanded ==
    /\ call.outcome \in {"none", "ok"}
    /\ Prior_Expand' = Unlist_Expanded(Prior_Expand, SerId)
    /\ freed' = freed \cup
                  (IF ser.alloc = NoAlloc THEN {}
                   ELSE {<<ser.alloc, ser.data - SER_WIDE(ser) * SER_BIAS(ser),
                           SER_TOTAL(ser)>>})
    /\ pre' = ser
    /\ call' = [call EXCEPT !.outcome = "decayed", !.strategy = "none",
                            !.frees = {}]
    /\ UNCHANGED <<ser, next_alloc, debug_build>>
    /\ UNCHANGED beside_expand

\* The node of the decayed series is given to a new series, which has the
\* identity of the old one.
Reuse_Node ==
    /\ call.outcome = "decayed"
    /\ ser' = Embedded_Series(0, 0, FALSE)
    /\ pre' = ser'
    /\ call' = [NoCall EXCEPT !.n = call.n, !.strategy = "reused"]
    /\ UNCHANGED <<Prior_Expand, next_alloc, freed, debug_build>>
    /\ UNCHANGED beside_expand

DecayNext ==
    \/ ExpandNext
    \/ Decay_Expanded
    \/ Reuse_Node

DecaySpec == ExpandInit /\ [][DecayNext]_vars

\* Remake_Series lines 943-1022, for a series that is not an array.  When
\* the allocation fails (lines 992-996) the data pointer is put back; for a
\* series that lived in its node that pointer is stored over the first
\* bytes of the content.
Remake_Series(s, units, wide, power_of_2, preserve, prior, newid, alloc_ok) ==
    LET len_old == SER_LEN(s)
        wide_old == SER_WIDE(s)
        was_dynamic == IS_SER_DYNAMIC(s)
        old_unit == SER_DATA_RAW(s) \div wide_old
        marked == [s EXCEPT !.wide_byte = wide,
                            !.power_of_2 = @ \/ power_of_2,
                            !.len_byte = 255]
        put_back == IF was_dynamic THEN marked
                    ELSE [marked EXCEPT !.buf = [u \in DOMAIN s.buf |->
                             IF u * wide_old < SizeofContent \div 4
                             THEN JUNK ELSE s.buf[u]]]
    IN  IF ~alloc_ok
        THEN Done(put_back, prior, {}, "no_memory", "remake")
        ELSE
        LET fresh == Did_Series_Data_Alloc(marked, units + 1, newid)
            len_new == IF preserve THEN Min({len_old, units}) ELSE 0
            copied == [fresh EXCEPT !.buf = [u \in DOMAIN fresh.buf |->
                          IF u < len_new THEN s.buf[old_unit + u]
                          ELSE fresh.buf[u]],
                       !.len = len_new]
            frees == IF was_dynamic
                     THEN {<<s.alloc, s.data - wide_old * SER_BIAS(s),
                             SER_TOTAL(s)>>}
                     ELSE {}
        IN  Done(TERM_SERIES(copied), prior, frees, "ok", "remake")

\* One call of Remake_Series(ser, units, wide, flags); the record of the
\* call keeps units as its index and wide as its delta.
Remake(units, wide, power_of_2, preserve, alloc_ok) ==
    /\ call.outcome \in {"none", "ok"}
    /\ call.n < MaxCalls
    /\ ~ser.fixed_size
    /\ ~IS_SER_ARRAY(ser)
    /\ preserve => wide = SER_WIDE(ser)
    /\ \E r \in {Remake_Series(ser, units, wide, power_of_2, preserve,
                               Prior_Expand, next_alloc, alloc_ok)} :
           /\ pre' = ser
           /\ ser' = r.s
           /\ Prior_Expand' = r.prior
           /\ freed' = freed \cup r.frees
           /\ next_alloc' = IF r.s.alloc = next_alloc
                            THEN next_alloc + 1 ELSE next_alloc
           /\ call' = [n |-> call.n + 1, index |-> units, delta |-> wide,
                       outcome |-> r.outcome, strategy |-> r.strategy,
                       next_alloc |-> next_alloc, frees |-> r.frees]
    /\ UNCHANGED debug_build
    /\ UNCHANGED beside_expand

RemakeNext ==
    \E units \in 0..(MaxLen + 1), wide \in {1, 2}, power_of_2 \in BOOLEAN,
       preserve \in BOOLEAN, alloc_ok \in BOOLEAN :
        Remake(units, wide, power_of_2, preserve, alloc_ok)

RemakeSpec == ExpandInit /\ [][RemakeNext]_vars

\* The memory pools before Startup_Pools, in a build with or without checks.
PoolInit ==
    /\ PoolParked
    /\ ser = Embedded_Series(0, 0, FALSE)
    /\ pre = ser
    /\ call = NoCall
    /\ Prior_Expand = [n \in 0..(MAX_EXPAND_LIST - 1) |->
                          IF n = 0 THEN Sentinel ELSE NullSer]
    /\ next_alloc = 2
    /\ freed = {}
    /\ debug_build \in BOOLEAN
    /\ HostParked
    /\ StackParked
    /\ ContextParked
    /\ TypesetParked
    /\ FrameParked
    /\ SaveParked
    /\ MoneyParked
    /\ PairingParked
    /\ MemoryParked

PoolSpec == PoolInit /\ [][PoolNext]_vars

\* The data stack before Startup_Data_Stack, in a build with or without
\* checks, the recently expanded list as Startup_Pools leaves it.
StackInit ==
    /\ StackParked
    /\ ser = Embedded_Series(0, 0, FALSE)
    /\ pre = ser
    /\ call = NoCall
    /\ Prior_Expand = [n \in 0..(MAX_EXPAND_LIST - 1) |->
                          IF n = 0 THEN Sentinel ELSE NullSer]
    /\ next_alloc = 2
    /\ freed = {}
    /\ debug_build \in BOOLEAN
    /\ HostParked
    /\ PoolParked
    /\ ContextParked
    /\ TypesetParked
    /\ FrameParked
    /\ SaveParked
    /\ MoneyParked
    /\ PairingParked
    /\ MemoryParked

StackSpec == StackInit /\ [][StackNext]_vars

\* The fields a context can have at the start: their keys have different
\* canons.
InitialFields(bits, vals) ==
    {q \in SeqsUpTo([canon : 1..MaxFields, bits : bits, hidden : BOOLEAN,
                     val : vals], MaxFields) :
         \A n \in 1..Len(q), m \in 1..Len(q) :
             q[n].canon = q[m].canon => n = m}

\* A context of the fields, and the keylist made for it.
Made_Context(kind, keylist, fields) ==
    [live |-> TRUE, kind |-> kind, keylist |-> keylist,
     vars |-> [n \in 1..Len(fields) |-> fields[n].val]]
Made_Keylist(fields) ==
    [live |-> TRUE, shared |-> FALSE, ancestor |-> 0,
     keys |-> [n \in 1..Len(fields) |->
                  [canon |-> fields[n].canon, bits |-> fields[n].bits,
                   hidden |-> fields[n].hidden]]]

\* One object, its keylist its own.
ContextInit ==
    /\ \E fields \in InitialFields({TS_VALUE}, {1}) :
           /\ contexts = [c \in CtxIds |->
                  IF c = 1 THEN Made_Context("object", 1, fields)
                  ELSE NoContext]
           /\ keylists = [k \in KeylistIds |->
                  IF k = 1 THEN Made_Keylist(fields) ELSE NoKeylist]
    /\ ctx_event = [op |-> "none", a |-> 0, b |-> 0, result |-> 0,
                    error |-> "none",
                    before |-> [contexts |-> [c \in CtxIds |-> NoContext],
                                keylists |->
                                    [k \in KeylistIds |-> NoKeylist]]]
    /\ HostParked
    /\ ExpandParked
    /\ PoolParked
    /\ StackParked
    /\ TypesetParked
    /\ FrameParked
    /\ SaveParked
    /\ MoneyParked
    /\ PairingParked
    /\ MemoryParked

ContextSpec == ContextInit /\ [][ContextNext]_vars

\* Two contexts to compare: an object or an error, and an object whose
\* keys and variables are as Append_Context makes them.
EqualInit ==
    /\ \E kind \in {"object", "error"},
          fields1 \in InitialFields({TS_VALUE, TS_WORD}, 1..MaxVal),
          fields2 \in InitialFields({TS_VALUE}, {1}) :
           /\ contexts = [c \in CtxIds |->
                  IF c = 1 THEN Made_Context(kind, 1, fields1)
                  ELSE IF c = 2 THEN Made_Context("object", 2, fields2)
                  ELSE NoContext]
           /\ keylists = [k \in KeylistIds |->
                  IF k = 1 THEN Made_Keylist(fields1)
                  ELSE IF k = 2 THEN Made_Keylist(fields2)
                  ELSE NoKeylist]
    /\ ctx_event = [op |-> "none", a |-> 0, b |-> 0, result |-> 0,
                    error |-> "none",
                    before |-> [contexts |-> [c \in CtxIds |-> NoContext],
                                keylists |->
                                    [k \in KeylistIds |-> NoKeylist]]]
    /\ HostParked
    /\ ExpandParked
    /\ PoolParked
    /\ StackParked
    /\ TypesetParked
    /\ FrameParked
    /\ SaveParked
    /\ MoneyParked
    /\ PairingParked
    /\ MemoryParked

EqualSpec == EqualInit /\ [][EqualNext]_vars

\* Any typeset, no verb applied to it yet.
TypesetInit ==
    /\ ts_val \in TypesetBits
    /\ ts_event = [verb |-> "none", val |-> 0, arg |-> No_Cell,
                   out |-> No_Cell, error |-> "none"]
    /\ HostParked
    /\ ExpandParked
    /\ PoolParked
    /\ StackParked
    /\ ContextParked
    /\ FrameParked
    /\ SaveParked
    /\ MoneyParked
    /\ PairingParked
    /\ MemoryParked

TypesetSpec == TypesetInit /\ [][TypesetNext]_vars

\* The frame stack before Startup_Frame_Stack, in a build with or without
\* NDEBUG.
FrameInit ==
    /\ FrameParked
    /\ ser = Embedded_Series(0, 0, FALSE)
    /\ pre = ser
    /\ call = NoCall
    /\ Prior_Expand = [n \in 0..(MAX_EXPAND_LIST - 1) |->
                          IF n = 0 THEN Sentinel ELSE NullSer]
    /\ next_alloc = 2
    /\ freed = {}
    /\ debug_build \in BOOLEAN
    /\ HostParked
    /\ PoolParked
    /\ StackParked
    /\ ContextParked
    /\ TypesetParked
    /\ SaveParked
    /\ MoneyParked
    /\ PairingParked
    /\ MemoryParked

FrameSpec == FrameInit /\ [][FrameNext]_vars

\* Before the first SAVE.
SaveInit ==
    /\ SaveParked
    /\ ser = Embedded_Series(0, 0, FALSE)
    /\ pre = ser
    /\ call = NoCall
    /\ Prior_Expand = [n \in 0..(MAX_EXPAND_LIST - 1) |->
                          IF n = 0 THEN Sentinel ELSE NullSer]
    /\ next_alloc = 2
    /\ freed = {}
    /\ debug_build = FALSE
    /\ HostParked
    /\ PoolParked
    /\ StackParked
    /\ ContextParked
    /\ TypesetParked
    /\ FrameParked
    /\ MoneyParked
    /\ PairingParked
    /\ MemoryParked

SaveSpec == SaveInit /\ [][SaveNext]_vars

\* Before the first action on a MONEY!.
MoneyInit ==
    /\ MoneyParked
    /\ ser = Embedded_Series(0, 0, FALSE)
    /\ pre = ser
    /\ call = NoCall
    /\ Prior_Expand = [n \in 0..(MAX_EXPAND_LIST - 1) |->
                          IF n = 0 THEN Sentinel ELSE NullSer]
    /\ next_alloc = 2
    /\ freed = {}
    /\ debug_build = FALSE
    /\ HostParked
    /\ PoolParked
    /\ StackParked
    /\ ContextParked
    /\ TypesetParked
    /\ FrameParked
    /\ SaveParked
    /\ PairingParked
    /\ MemoryParked

MoneySpec == MoneyInit /\ [][MoneyNext]_vars

\* The pools as Startup_Pools leaves them, in a build with or without
\* UNUSUAL_REBVAL_SIZE.
PairingInit ==
    /\ unusual_rebval_size \in BOOLEAN
    /\ pr_pools = [p \in PairPools |-> EmptyPool]
    /\ pr_pairings = {}
    /\ pr_event = NoPairing
    /\ ser = Embedded_Series(0, 0, FALSE)
    /\ pre = ser
    /\ call = NoCall
    /\ Prior_Expand = [n \in 0..(MAX_EXPAND_LIST - 1) |->
                          IF n = 0 THEN Sentinel ELSE NullSer]
    /\ next_alloc = 2
    /\ freed = {}
    /\ debug_build = FALSE
    /\ HostParked
    /\ PoolParked
    /\ StackParked
    /\ ContextParked
    /\ TypesetParked
    /\ FrameParked
    /\ SaveParked
    /\ MoneyParked
    /\ MemoryParked

PairingSpec == PairingInit /\ [][PairingNext]_vars

\* Nothing is allocated; there is a ceiling or there is none.
MemoryInit ==
    /\ PG_Mem_Usage = 0
    /\ PG_Mem_Limit \in {0, MaxSize + 1}
    /\ mem_blocks = <<>>
    /\ mem_event = NoMem
    /\ ser = Embedded_Series(0, 0, FALSE)
    /\ pre = ser
    /\ call = NoCall
    /\ Prior_Expand = [n \in 0..(MAX_EXPAND_LIST - 1) |->
                          IF n = 0 THEN Sentinel ELSE NullSer]
    /\ next_alloc = 2
    /\ freed = {}
    /\ debug_build = FALSE
    /\ HostParked
    /\ PoolParked
    /\ StackParked
    /\ ContextParked
    /\ TypesetParked
    /\ FrameParked
    /\ SaveParked
    /\ MoneyParked
    /\ PairingParked

MemorySpec == MemoryInit /\ [][MemoryNext]_vars

(***************************************************************************)
(* Properties of the host loop                                             *)
(***************************************************************************)

\* C1 (as stated): while a BLOCK! instruction returned by the console
\* driver is executing, Ctrl-C is disabled.
C1_Block_Runs_Without_Interrupts ==
    (pc = "sandbox" /\ code = "block") => ~ctrl_c_enabled

\* C1 (amended): while a BLOCK! instruction is executing Ctrl-C is enabled,
\* as for a GROUP!, and it is disabled again once the block has returned.
C1_Block_Runs_With_Interrupts ==
    /\ (pc = "sandbox" /\ code = "block") => ctrl_c_enabled
    /\ (pc = "loop" /\ code = "block") => ~ctrl_c_enabled

C1_Witness ==
    pc = "sandbox" /\ code = "block" /\ ctrl_c_enabled

\* C2: Ctrl-C is disabled whenever startup runs, whenever the loop is
\* about to invoke HOST-CONSOLE and whenever HOST-CONSOLE is running,
\* after a block, after a group and on the error-recovery path alike.
C2_Interrupts_Disabled_In_Driver ==
    pc \in {"startup", "loop", "host_console"} => ~ctrl_c_enabled

C2_Witness ==
    /\ pc = "host_console"
    /\ handed = <<"host_console_error", "driver_error">>
    /\ saved_eval_hook = "custom"
    /\ ~ctrl_c_enabled

\* C3 (as stated): a HOST-CONSOLE failure is fatal only when it is the
\* second consecutive one, that is when the failing invocation was the one
\* handed the #host-console-error instruction.
C3_Fatal_Only_When_Consecutive ==
    pc = "panicked" => code = "host_console_error"

\* C3 (amended): a HOST-CONSOLE failure is fatal exactly when it is the
\* second failure with no GROUP! instruction executed in between; any other
\* failure is fed back as #host-console-error with the error as result.
C3_Fatal_When_No_Group_Since_Failure ==
    /\ (pc = "panicked") <=> (fails_since_group = 2)
    /\ fails_since_group <= 2
    /\ (driver_outcome = "fail" /\ pc # "panicked") =>
           /\ pc \in {"loop", "host_console"}
           /\ code = "host_console_error"
           /\ result = "driver_error"
           /\ fails_since_group = 1
           /\ pc = "host_console" =>
                  handed = <<"host_console_error", "driver_error">>

C3_Witness ==
    pc = "panicked" /\ code = "block" /\ handed[1] = "block"

\* C4: a failure of the invocation that was handed #host-console-error
\* panics, and after the panic nothing runs any more.
C4_No_Second_Recovery ==
    [][ /\ (/\ pc = "host_console"
            /\ handed[1] = "host_console_error"
            /\ driver_outcome' = "fail") => pc' = "panicked"
        /\ pc = "panicked" => (pc' = "panicked" /\ n_calls' = n_calls)
      ]_vars

C4_Witness ==
    pc = "panicked" /\ handed[1] = "host_console_error"

\* C5: when the instruction run in the sandbox fails, the loop goes on and
\* the next HOST-CONSOLE invocation receives the instruction together with
\* the error as its result.
C5_Instruction_Failure_Is_Fed_Back ==
    code_outcome = "fail" =>
        /\ pc \in {"loop", "host_console"}
        /\ result = "error"
        /\ pc = "host_console" => handed = <<code, "error">>

C5_Witness ==
    /\ code_outcome = "fail"
    /\ pc = "host_console"
    /\ handed = <<"group", "error">>

C7_Exit_Status ==
    /\ code = "integer" =>
           /\ pc \in {"shutdown_extensions", "quit_devices",
                       "reb_shutdown", "exited"}
           /\ exit_status = code_int
    /\ pc = "reb_shutdown" => (extensions_shut /\ devices_quit)
    /\ pc = "exited" =>
           /\ code = "integer"
           /\ returned = code_int
           /\ extensions_shut
           /\ devices_quit
    /\ returned # NotReturned => pc = "exited"

C7_Witness ==
    pc = "exited" /\ returned = 1 /\ n_calls = 3 /\ extensions_shut

(***************************************************************************)
(* Properties of Expand_Series                                             *)
(***************************************************************************)

\* C8: a successful Expand_Series(s, i, d) on a series of length L leaves
\* the units [0,i) as they were, has the former units [i,L) at [i+d,L+d)
\* and makes the series report length L+d, whichever path it took.
C8_Expand_Preserves_Content ==
    call.outcome = "ok" =>
        LET L == SER_LEN(pre)
            i == call.index
            d == call.delta
        IN  /\ SER_LEN(ser) = L + d
            /\ \A k \in 0..(i - 1) : SER_AT(ser, k) = SER_AT(pre, k)
            /\ \A k \in i..(L - 1) : SER_AT(ser, k + d) = SER_AT(pre, k)

C8_Witness ==
    /\ call.outcome = "ok"
    /\ call.strategy = "realloc"
    /\ call.index > 0
    /\ call.index < SER_LEN(pre)
    /\ call.delta > 1
    /\ SER_LEN(ser) = SER_LEN(pre) + call.delta

\* The series with the content of s (elements and terminator), no bias and
\* no room to spare, so that expanding it takes the new-allocation path.
Zero_Bias_Equivalent(s) ==
    [s EXCEPT !.data = 0, !.bias = 0, !.rest = SER_LEN(s) + 1,
              !.buf = [u \in 0..SER_LEN(s) |-> SER_AT(s, u)]]

\* The capacity bookkeeping of a dynamic series is sound: the total it
\* reports is the size of its allocation, the data pointer sits right
\* after the bias and there is room for the terminator.
Capacity_Accounted(s) ==
    /\ SER_TOTAL(s) = Cardinality(DOMAIN s.buf) * SER_WIDE(s)
    /\ s.data = SER_BIAS(s) * SER_WIDE(s)
    /\ SER_REST(s) > SER_LEN(s)

\* C9: expanding a dynamic series at index 0 by d when its bias is at least
\* d makes no allocation and frees nothing (same buffer, data pointer d
\* units lower), and leaves the series with the length, the elements, the
\* terminator and the sound capacity bookkeeping that the new-allocation
\* path gives on the equivalent series with zero bias.
C9_Head_Insertion_Matches_Copy ==
    (call.outcome = "ok" /\ call.strategy = "head") =>
        LET d == call.delta
            g == New_Allocation(Zero_Bias_Equivalent(pre), 0, d,
                                Prior_Expand, next_alloc, TRUE,
                                debug_build).s
        IN  /\ ser.alloc = pre.alloc
            /\ next_alloc = call.next_alloc
            /\ call.frees = {}
            /\ DOMAIN ser.buf = DOMAIN pre.buf
            /\ ser.data = pre.data - d * SER_WIDE(pre)
            /\ SER_LEN(ser) = SER_LEN(g)
            /\ \A k \in d..SER_LEN(g) : SER_AT(ser, k) = SER_AT(g, k)
            /\ Capacity_Accounted(ser)
            /\ Capacity_Accounted(g)

C9_Witness ==
    /\ call.outcome = "ok"
    /\ call.strategy = "head"
    /\ call.delta > 1
    /\ SER_LEN(pre) > 1
    /\ SER_BIAS(ser) = SER_BIAS(pre) - call.delta

\* C9, leaving out the series marked SERIES_FLAG_FIXED_SIZE (which the head
\* insertion expands although the new-allocation path refuses them): the
\* head insertion matches the new-allocation path.
C9_Matches_Copy_Unless_Fixed_Size ==
    pre.fixed_size \/ C9_Head_Insertion_Matches_Copy

\* C10: Expand_Series with a non-zero delta on a series marked
\* SERIES_FLAG_FIXED_SIZE fails with the locked-series error.
C10_Fixed_Size_Is_Locked ==
    (call.n > 0 /\ call.delta > 0 /\ pre.fixed_size) =>
        call.outcome = "locked"

(***************************************************************************)
(* Properties of the memory pools and of the lifetime of series            *)
(***************************************************************************)

\* C11: an allocation that cannot be satisfied never aborts the process,
\* except while the first pool segments are allocated at startup: a panic
\* of Fill_Pool happens in Startup_Pools only.
C11_Alloc_Failure_Is_Recoverable ==
    (pool_pc = "panicked" /\ pool_event.panic)
        => pool_event.op = "Startup_Pools"

\* The free count of every pooled size class is the number of nodes on its
\* free list.
Free_Count_Is_List_Length ==
    \A p \in PooledPools : Mem_Pools[p].free = Len(Mem_Pools[p].first)

\* C12 as stated: after a series (its node, and its data block when pooled)
\* is allocated and then freed, the free counts of the pools are the ones
\* before the allocation, and a free count is always the length of the free
\* list.
C12_Free_Count_Restored ==
    /\ Free_Count_Is_List_Length
    /\ trip.phase = "freed"
           => \A p \in PooledPools : Mem_Pools[p].free = trip.free[p]

\* C12 amended: after a series is allocated and then freed, the free count
\* of a pool is the one before the allocation, plus the units of the segment
\* when the allocation had to fill one; a free count is always the length
\* of the free list.
C12_Free_Count_Restored_Up_To_Fill ==
    /\ Free_Count_Is_List_Length
    /\ trip.phase = "freed"
           => \A p \in PooledPools :
                  Mem_Pools[p].free =
                      trip.free[p] + (IF trip.filled[p] THEN PoolUnits ELSE 0)

C12_Witness ==
    /\ trip.phase = "freed"
    /\ trip.filled[DATA_POOL]
    /\ ~trip.filled[SER_POOL]
    /\ Mem_Pools[SER_POOL].free > 0

\* C13: an allocation that follows the freeing of a node of the same pool,
\* with no allocation from that pool in between, returns the node freed
\* last, and that without filling a segment; a segment is filled only when
\* the pool has no free node.
C13_Freed_Node_Is_Reused ==
    \A p \in PooledPools :
        LET a == pool_event.allocs[p]
        IN  a.node # NullNode
                => /\ a.expect # NullNode
                       => (a.node = a.expect /\ ~a.filled)
                   /\ a.filled => a.free_before = 0

C13_Witness ==
    /\ pool_event.allocs[DATA_POOL].node # NullNode
    /\ pool_event.allocs[DATA_POOL].expect = pool_event.allocs[DATA_POOL].node
    /\ Len(Mem_Pools[DATA_POOL].first) > 0

\* C14: a series that is inaccessible stays so for as long as it is alive;
\* no series is decayed twice; the kill of a series that is inaccessible
\* already gives its node back to SER_POOL and touches no other pool.
C14_Decay_Is_Terminal ==
    [][/\ \A n \in SerNodes :
              (ser_nodes[n].live /\ ser_nodes[n].inaccessible
                   /\ ser_nodes'[n].live)
                  => ser_nodes'[n].inaccessible
       /\ \A n \in SerNodes : ser_nodes'[n].decays <= 1
       /\ (pool_event'.killed /\ pool_event'.was_decayed)
              => /\ Mem_Pools'[DATA_POOL] = Mem_Pools[DATA_POOL]
                 /\ Mem_Pools'[SYSTEM_POOL] = Mem_Pools[SYSTEM_POOL]
                 /\ Mem_Pools'[SER_POOL] =
                        Free_Node(Mem_Pools[SER_POOL], pool_event'.node)
      ]_vars

C14_Witness ==
    /\ pool_event.killed
    /\ pool_event.was_decayed
    /\ ser_nodes[pool_event.node].decays = 1

\* Number of entries of GC_Manuals that are the series.
Times_Tracked(s) == Cardinality({i \in 1..Len(manuals) : manuals[i] = s})

\* C15: every live series other than GC_Manuals is either managed and not
\* in GC_Manuals, or not managed and in GC_Manuals exactly once.
C15_Managed_Or_Tracked_Once ==
    pool_pc = "running"
        => \A n \in LiveSeries \ {GC_Manuals} :
               \/ ser_nodes[n].managed /\ Times_Tracked(n) = 0
               \/ ~ser_nodes[n].managed /\ Times_Tracked(n) = 1

C17_Overflow_Exactly_Beyond_Limit ==
    ds_event.op = "expand" =>
        /\ (ds_event.outcome = "stack_overflow")
               <=> (ds_event.rest_old + ds_event.amount > STACK_LIMIT)
        /\ (ds_event.rest_old + ds_event.amount <= STACK_LIMIT) =>
               /\ ds_event.outcome = "ok"
               /\ SER_LEN(ser) = ds_event.len_old + ds_event.amount

\* C17 (amended): growing the data stack raises the stack-overflow failure
\* exactly when the capacity plus the amount asked reaches or exceeds the
\* limit, leaving the array as it was; a growth below the limit adds the
\* amount asked as unreadable blanks and terminates the array, unless the
\* allocation fails, which is the out-of-memory failure.
C17_Overflow_At_Or_Beyond_Limit ==
    ds_event.op = "expand" =>
        /\ ds_event.outcome \in {"ok", "stack_overflow", "no_memory"}
        /\ (ds_event.outcome = "stack_overflow")
               <=> (ds_event.rest_old + ds_event.amount >= STACK_LIMIT)
        /\ ds_event.outcome = "stack_overflow" =>
               SER_LEN(ser) = ds_event.len_old
        /\ ds_event.outcome = "no_memory" => ~ds_event.alloc_ok
        /\ (ds_event.rest_old + ds_event.amount < STACK_LIMIT
              /\ ds_event.alloc_ok) => ds_event.outcome = "ok"
        /\ ds_event.outcome = "ok" =>
               /\ SER_LEN(ser) = ds_event.len_old + ds_event.amount
               /\ SER_REST(ser) > SER_LEN(ser)
               /\ SER_AT(ser, SER_LEN(ser)) = TERM
               /\ \A n \in ds_event.len_old..(SER_LEN(ser) - 1) :
                      SER_AT(ser, n) \in {UNREADABLE, PushedValue}

\* C17 witness: a growth that lands exactly on the limit was refused, and
\* the stack had grown before.
C17_Witness ==
    /\ ds_event.op = "expand"
    /\ ds_event.outcome = "stack_overflow"
    /\ ds_event.rest_old + ds_event.amount = STACK_LIMIT
    /\ ds_event.len_old > 2

(***************************************************************************)
(* Properties of contexts                                                  *)
(***************************************************************************)

\* C18: given two contexts that share one keylist, adding a field to one
\* of them leaves the other's keylist identity, key count and key order
\* unchanged, and the shared keylist is not modified in place.
C18_Sibling_Keylist_Untouched ==
    ctx_event.op = "append" =>
        \A c \in CtxIds \ {ctx_event.a} :
            LET was == ctx_event.before
                shared == was.contexts[c].keylist
            IN  (was.contexts[c].live
                   /\ shared = was.contexts[ctx_event.a].keylist) =>
                     /\ contexts[c].keylist = shared
                     /\ keylists[shared].live
                     /\ keylists[shared].keys = was.keylists[shared].keys
                     /\ contexts[c].vars = was.contexts[c].vars

\* C18 witness: a field was added to a context whose keylist another
\* context shared.
C18_Witness ==
    /\ ctx_event.op = "append"
    /\ ctx_event.error = "none"
    /\ \E c \in CtxIds \ {ctx_event.a} :
           /\ ctx_event.before.contexts[c].live
           /\ ctx_event.before.contexts[c].keylist
                  = ctx_event.before.contexts[ctx_event.a].keylist
    /\ CTX_LEN(ContextHeap, ctx_event.a)
           > Len(ctx_event.before.contexts[ctx_event.a].vars)

\* The fields of a context that are not hidden, in their order: the bits
\* and canon of the key and the value of the variable.
Visible_Fields(c) ==
    LET keys == CTX_KEYS(ContextHeap, c)
        Shown(n) == ~keys[n].hidden
        shown == SelectSeq([n \in 1..Len(keys) |-> n], Shown)
    IN  [m \in 1..Len(shown) |->
            [bits |-> keys[shown[m]].bits, canon |-> keys[shown[m]].canon,
             val |-> contexts[c].vars[shown[m]]]]

\* C19: two contexts of the same kind compare equal exactly when their
\* sequences of visible fields match position by position in key and
\* value, whatever hidden fields either has and wherever; the same visible
\* fields in another order compare unequal.  (A result of -1 is the answer
\* to a comparison that was not for equality.)
C19_Equal_Iff_Visible_Fields_Match ==
    ctx_event.op = "compare" =>
        /\ ctx_event.result \in {-1, 0, 1}
        /\ ctx_event.result # -1 =>
               ((ctx_event.result = 1)
                    <=> /\ contexts[ctx_event.a].kind
                            = contexts[ctx_event.b].kind
                        /\ Visible_Fields(ctx_event.a)
                            = Visible_Fields(ctx_event.b))

\* C19 witness: two different contexts compared equal although only one of
\* them has a hidden field.
C19_Witness ==
    /\ ctx_event.op = "compare"
    /\ ctx_event.a # ctx_event.b
    /\ ctx_event.result = 1
    /\ CTX_LEN(ContextHeap, ctx_event.a) > CTX_LEN(ContextHeap, ctx_event.b)
    /\ Visible_Fields(ctx_event.a) # <<>>

(***************************************************************************)
(* Properties of typesets                                                  *)
(***************************************************************************)

\* C20: for all typeset bit patterns A and B, UNION yields A|B, INTERSECT
\* yields A&B, DIFFERENCE yields A^B and COMPLEMENT yields ~A: a kind is in
\* the result of UNION when it is in A or in B, of INTERSECT when it is in
\* both, of DIFFERENCE when it is in just one of them, and of COMPLEMENT
\* when it is not in A.
C20_Typeset_Set_Operations ==
    LET A == ts_event.val
        B == ts_event.arg.bits
        has(bits, kind) == TYPE_CHECK(bits, kind)
    IN  (ts_event.verb \in {"union", "intersect", "difference", "complement"}
           /\ ts_event.arg.type \in {"typeset", "none"}) =>
            /\ ts_event.error = "none"
            /\ ts_event.out.type = "typeset"
            /\ ts_event.out.bits \in TypesetBits
            /\ ts_val = ts_event.out.bits
            /\ \A kind \in 0..(MaxKind - 1) :
                   has(ts_event.out.bits, kind) <=>
                       CASE ts_event.verb = "union" ->
                                has(A, kind) \/ has(B, kind)
                         [] ts_event.verb = "intersect" ->
                                has(A, kind) /\ has(B, kind)
                         [] ts_event.verb = "difference" ->
                                has(A, kind) # has(B, kind)
                         [] ts_event.verb = "complement" ->
                                ~has(A, kind)

\* C20 witness: the difference of {decimal, integer} and {integer} was
\* taken and is {decimal}.
C20_Witness ==
    /\ ts_event.verb = "difference"
    /\ ts_event.val = FLAGIT_KIND(REB_DECIMAL) + FLAGIT_KIND(REB_INTEGER)
    /\ ts_event.arg = Typeset_Cell(FLAGIT_KIND(REB_INTEGER))
    /\ ts_event.out = Typeset_Cell(FLAGIT_KIND(REB_DECIMAL))

\* C21: when the second argument of UNION, INTERSECT or DIFFERENCE is a
\* datatype T, the result is what the singleton typeset of T's bit would
\* have given.
C21_Datatype_Is_Singleton_Typeset ==
    (ts_event.verb \in {"union", "intersect", "difference"}
       /\ ts_event.arg.type = "datatype") =>
        /\ ts_event.error = "none"
        /\ ts_event.out = REBTYPE_Typeset(
                              ts_event.val,
                              Typeset_Cell(FLAGIT_KIND(ts_event.arg.kind)),
                              ts_event.verb).out

(***************************************************************************)
(* Properties of the frame stack                                           *)
(***************************************************************************)

\* The frames above FS_BOTTOM that do not run the dummy action.
Real_Frames == {f \in 2..Len(fs_frames) : fs_frames[f].phase # "dummy"}

\* C22: the lookup of the current context walks the frame stack from the
\* top over every dummy frame, ends within the depth of the stack, and
\* gives the user context whenever it finds no native frame; a native
\* frame found gives the context of that native.
C22_Lookup_Defaults_To_User ==
    fs_event.op = "lookup" =>
        LET top == IF Real_Frames = {} THEN 1
                   ELSE CHOOSE f \in Real_Frames :
                            \A g \in Real_Frames : g <= f
        IN  /\ fs_event.steps = Len(fs_frames) - top
            /\ IF fs_frames[top].phase = "native"
               THEN fs_event.context = fs_frames[top].context
               ELSE fs_event.context = "user"

\* C22 (amended): the lookup walks from the top over every dummy frame and
\* ends at the first other frame or at FS_BOTTOM.  At FS_BOTTOM it gives
\* the user context; at a native, the context of the native; at an action
\* that is not a native, a build with checks warns and gives the library
\* context, and a build without gives whatever the details of the action
\* hold.
C22_Lookup_Stops_At_First_Real_Frame ==
    fs_event.op = "lookup" =>
        LET top == IF Real_Frames = {} THEN 1
                   ELSE CHOOSE f \in Real_Frames :
                            \A g \in Real_Frames : g <= f
        IN  /\ fs_event.steps = Len(fs_frames) - top
            /\ fs_event.context \in AnyContext
            /\ top = 1 => fs_event.context = "user"
            /\ fs_frames[top].phase = "native" =>
                   fs_event.context = fs_frames[top].context
            /\ fs_event.warned <=>
                   (debug_build /\ fs_frames[top].phase = "action")
            /\ fs_event.warned => fs_event.context = "lib"

\* C22 witness: a lookup went over a dummy frame and met an action that is
\* not a native.
C22_Witness ==
    /\ fs_event.op = "lookup"
    /\ fs_event.steps > 0
    /\ fs_event.context # "user"
    /\ fs_frames[Len(fs_frames) - fs_event.steps].phase = "action"

\* C23: a SAVE with a header and the /LENGTH refinement gives output whose
\* header has a LENGTH that is the number of bytes of the body after it.
C23_Header_Length_Is_Body_Size ==
    (sv_event.length /\ sv_event.header_data.present) =>
        /\ sv_out.outcome = "ok"
        /\ sv_out.header.length = Field("integer", Len(sv_out.body))

\* C24: a MONEY! divided by a MONEY! is a plain number and not a MONEY!:
\* $10 / $10 is the number 1.
C24_Money_Quotient_Is_Plain_Number ==
    (money_event.verb = "divide" /\ money_event.arg.type = "money"
       /\ money_out.error = "none") =>
        /\ money_out.out.type # "money"
        /\ (money_event.val.n = money_event.arg.n) => money_out.out.n = 1

\* C24 (amended): a MONEY! divided by a MONEY! that is not zero is a MONEY!:
\* $10 / $10 is $1.
C24_Money_Quotient_Is_Money ==
    (money_event.verb = "divide" /\ money_event.arg.type = "money"
       /\ money_event.arg.n # 0) =>
        /\ money_out.error = "none"
        /\ money_out.out.type = "money"
        /\ (money_event.val.n = money_event.arg.n) =>
               money_out.out = Init_Money(int_to_deci(1))

\* C24 witness: $10 / $10 gave $1.
C24_Witness ==
    /\ money_event.verb = "divide"
    /\ money_event.val = Init_Money(int_to_deci(MaxMoney))
    /\ money_event.arg = Init_Money(int_to_deci(MaxMoney))
    /\ money_out.out = Init_Money(int_to_deci(1))

\* C25: once a series is decayed, no slot of the recently expanded list
\* holds it, and the series that gets its node is not found in the list.
C25_Decayed_Series_Not_Listed ==
    (call.outcome = "decayed" \/ call.strategy = "reused") =>
        \A n \in DOMAIN Prior_Expand : Prior_Expand[n] # SerId

\* C26: when Remake_Series cannot allocate, the series is as it was before
\* the call: width, flags, the marker of a dynamic series, length and data.
C26_Failed_Remake_Restores_Series ==
    (call.strategy = "remake" /\ call.outcome = "no_memory") => ser = pre

\* C27: every node on the free list of a pool lies inside exactly one
\* segment of that pool, and a pairing that is freed goes back to the pool
\* it was drawn from.
C27_Free_Nodes_In_Own_Pool ==
    /\ \A p \in PairPools : \A i \in 1..Len(pr_pools[p].first) :
           Cardinality({k \in 0..(pr_pools[p].segs - 1) :
               pr_pools[p].first[i] \in
                   (k * PoolUnits + 1)..((k + 1) * PoolUnits)}) = 1
    /\ pr_event.op = "Free_Pairing" =>
           pr_event.pool = PAR_POOL(unusual_rebval_size)

\* C28: after any Alloc_Mem and Free_Mem calls, those refused by the
\* security check or failed by malloc() included, PG_Mem_Usage is the total
\* size of the allocations outstanding, and zero after the shutdown.
C28_Usage_Is_Outstanding_Total ==
    PG_Mem_Usage = Sum_Sizes(mem_blocks)

\* C29: when an operation on the data stack has completed, the startup, an
\* expansion that succeeded or one that failed with the stack overflow,
\* DS_Movable_Top points at the cell at DS_Index; after the failed
\* expansion DS_Index is what it was before the push that asked for it.
C29_Top_Addresses_Stack_Index ==
    (ds_event.op # "none" /\ ds_event.outcome \in {"ok", "stack_overflow"})
        =>
        /\ DS_Movable_Top = Cell_Pointer(ser, DS_Index)
        /\ ds_event.outcome = "stack_overflow" =>
               DS_Index = ds_event.len_old - 1

\* C30: when Expand_Series fails for want of memory the series is as it
\* was before the call: the marker of a dynamic series, flags, length and
\* data.
C30_Failed_Expand_Leaves_Series ==
    (call.strategy = "realloc" /\ call.outcome = "no_memory") => ser = pre

====
